---- MODULE Spec2Model ----
(***************************************************************************)
(* Schedule Integrity Engine of the hull-fabrication project tracker.      *)
(*                                                                         *)
(* The model follows src/src/service.py (business rules), the use cases of *)
(* src/src/application.py (one action per use case, executed as one step)  *)
(* and the in-memory stores of src/src/infrastructure.py.                  *)
(*                                                                         *)
(* Conventions                                                             *)
(*  - A service method is an operator returning a record with a field      *)
(*    `error`: OK when the method returned, otherwise a tag naming the     *)
(*    ValueError it raised.                                                *)
(*  - A use case is an action.  It records what happened in `result`:      *)
(*    the use case name and its outcome (OK or the error it ended in).     *)
(*  - Stage dependencies and notification logs, keyed by a fresh uuid4     *)
(*    that nothing reads, are bags of records (the key is dropped, the     *)
(*    multiplicity is kept).  Role assignments, baseline snapshots and     *)
(*    audit entries are sets: their other fields tell them apart.  Change  *)
(*    requests and baselines are looked up by id and are functions from    *)
(*    ids 1..n, the n-th created object getting id n.                      *)
(*  - Free text that no rule reads (names, descriptions, notes,            *)
(*    notification comments) is not part of the records.  Text that a rule *)
(*    strips or stores (reason, reviewer comments) is a sequence of        *)
(*    characters.                                                          *)
(*  - The database starts populated: the projects, stakeholders, stages    *)
(*    and role assignments below exist; nothing else does.                 *)
(***************************************************************************)
EXTENDS Integers, Sequences, FiniteSets, Bags, TLC

(***************************************************************************)
(* Bounds of the model                                                     *)
(***************************************************************************)
\* stored dependencies at which no further AddStageDependency is issued
MaxDeps == 3
\* change requests ever submitted
MaxCR == 2
\* baselines ever created
MaxBaselines == 3
\* last tick of the clock
MaxNow == 1
\* status updates recorded
MaxUpdates == 2

(***************************************************************************)
(* Identifiers and enumerations                                            *)
(***************************************************************************)
\* Python's None for optional numbers: ids of change requests and baselines,
\* dates, durations and timestamps
None == -99
\* Python's None where the value is otherwise a string: a stage id, a
\* deviation status
NoneStr == "None"

OK == "ok"

Projects == {"P1", "P2"}
\* a project id no stored project has
UnknownProject == "P0"
ProjectIds == Projects \cup {UnknownProject}

Stakeholders == {"u1", "u2"}

\* stage ids named in dependency commands (A, B, C of the scenario)
StageIds == {"A", "B", "C"}
\* the ids add_stage hands out to new stages
NewStageIds == {"D"}
\* a stage id no stored stage has
UnknownStage == "Z"

\* the threads that serve requests
Workers == {"w1", "w2"}
\* a worker that runs no ResetBaseline
NoRead == [project_id |-> NoneStr]

PhaseIds == {"phase1", "phase2"}
\* a phase id no stored phase has
UnknownPhase == "phase0"

\* model.py StakeholderRole
LEAD_PROJECT_MANAGER == "lead_project_manager"
BASELINE_APPROVER == "baseline_approver"
OWNER_REPRESENTATIVE == "owner_representative"
PROCUREMENT_LEAD == "procurement_lead"
QA_CLASSIFICATION_OFFICER == "qa_classification_officer"
TEAM_MEMBER == "team_member"
StakeholderRole ==
    {LEAD_PROJECT_MANAGER, BASELINE_APPROVER, OWNER_REPRESENTATIVE,
     PROCUREMENT_LEAD, QA_CLASSIFICATION_OFFICER, TEAM_MEMBER}

\* model.py ChangeRequestStatus
PENDING == "pending"
APPROVED == "approved"
REJECTED == "rejected"
ChangeRequestStatus == {PENDING, APPROVED, REJECTED}

\* model.py ChangeType
INITIAL_BASELINE == "initial_baseline"
DELAY == "delay"
SCOPE_CHANGE == "scope_change"
COST_CHANGE == "cost_change"
\* ChangeType.OTHER (OTHER is a reserved word)
OTHER_CHANGE == "other"
ChangeType == {INITIAL_BASELINE, DELAY, SCOPE_CHANGE, COST_CHANGE, OTHER_CHANGE}

\* model.py StageStatus
NOT_STARTED == "not_started"
IN_PROGRESS == "in_progress"
BLOCKED == "blocked"
COMPLETED == "completed"
StageStatus == {NOT_STARTED, IN_PROGRESS, BLOCKED, COMPLETED}

\* model.py NotificationType (the types the modelled use cases emit)
BASELINE_SET == "baseline_set"
BASELINE_RESET == "baseline_reset"
CHANGE_REQUEST_SUBMITTED == "change_request_submitted"
CHANGE_REQUEST_APPROVED == "change_request_approved"
CHANGE_REQUEST_REJECTED == "change_request_rejected"
STAGE_BLOCKED == "stage_blocked"

\* model.py DeviationStatus
ON_BASELINE == "on_baseline"
AHEAD == "ahead"
DELAYED == "delayed"

(***************************************************************************)
(* Errors.  service.py raises ValueError with a message; the tag names the *)
(* message.  application.py raises NotFoundError for a missing entity.     *)
(***************************************************************************)
ERR_ROLE == "does not hold any of the required roles"
ERR_SELF_DEPENDENCY == "A stage cannot depend on itself."
ERR_DEPENDENCY_EXISTS == "This dependency already exists."
ERR_CIRCULAR == "Adding this dependency would create a circular dependency chain."
ERR_NOT_FOUND == "not found"
ERR_ROLE_ALREADY_HELD == "already holds role on this project"
ERR_NO_ASSIGNMENT == "No assignment found"
ERR_REASON == "A reason must be provided for the change request."
ERR_NOT_PENDING_APPROVE == "Only PENDING change requests can be approved."
ERR_APPROVER_APPROVE == "Only the designated approver may approve this change request."
ERR_COMMENTS_APPROVE == "Reviewer comments are mandatory for approval."
ERR_NOT_PENDING_REJECT == "Only PENDING change requests can be rejected."
ERR_APPROVER_REJECT == "Only the designated approver may reject this change request."
ERR_COMMENTS_REJECT == "Reviewer comments are mandatory for rejection."
ERR_NOT_APPROVED_SET == "Cannot set baseline: change request is not approved."
ERR_NOT_INITIAL_TYPE == "Initial baseline requires a change request of type INITIAL_BASELINE."
ERR_BASELINE_EXISTS == "Project already has a baseline."
ERR_NOT_APPROVED_RESET == "Cannot reset baseline: change request is not approved."
ERR_NO_ACTIVE_BASELINE == "No active baseline found. Use set_initial_baseline first."
ERR_DATES == "planned_end_date must not be before planned_start_date."
ERR_PROGRESS_RANGE == "progress_pct must be between 0 and 100."
ERR_END_WITHOUT_START == "actual_end_date cannot be set without actual_start_date."
ERR_COMPLETED_WITHOUT_DATES == "A stage cannot be marked COMPLETED without both actual dates."
ERR_PHASE_HAS_ACTUALS == "Cannot remove phase: a stage has recorded actual progress."

VARIABLES
    projects,              \* project id -> Project
    phases,                \* phase id -> Phase
    stages,                \* stage id -> Stage
    stage_updates,         \* sequence of StageStatusUpdate, in the order saved
    dependencies,          \* bag of StageDependency
    project_stakeholders,  \* set of ProjectStakeholder (one per project, person, role)
    change_requests,       \* change request id -> ChangeRequest
    baselines,             \* baseline id -> Baseline
    baseline_snapshots,    \* set of BaselineStageSnapshot
    audit_trail,           \* set of AuditTrailEntry
    notifications,         \* bag of NotificationLog
    now,                   \* the clock read by _utcnow()
    in_flight,             \* worker -> what its running ResetBaseline has read so far
    result                 \* the last use case executed and how it ended

vars ==
    <<projects, phases, stages, stage_updates, dependencies, project_stakeholders,
      change_requests, baselines, baseline_snapshots, audit_trail, notifications,
      now, in_flight, result>>

(***************************************************************************)
(* Generic helpers                                                         *)
(***************************************************************************)
\* a list holding the elements of a finite set, in some order
RECURSIVE SetToSeq(_)
SetToSeq(S) ==
    IF S = {} THEN <<>>
    ELSE LET x == CHOOSE e \in S : TRUE IN <<x>> \o SetToSeq(S \ {x})

\* the distinct records a bag holds
Elements(bag) == BagToSet(bag)

\* a bag with one more copy of e
BagAdd(bag, e) == bag (+) SetToBag({e})

\* a bag with one copy of e less
BagRemove(bag, e) == bag (-) SetToBag({e})

\* the sub-bag of the records satisfying a project filter
BagOfProject(bag, project_id) ==
    LET keep == {e \in Elements(bag) : e.project_id = project_id}
    IN [e \in keep |-> bag[e]]

(***************************************************************************)
(* Role guard                                                              *)
(***************************************************************************)
\* TRUE when _require_role returns, FALSE when it raises
_require_role(project_stakeholders_, stakeholder_id, allowed_roles) ==
    LET roles == {ps.role : ps \in {x \in project_stakeholders_ :
                                        x.stakeholder_id = stakeholder_id}}
    IN roles \cap allowed_roles # {}

\* InMemoryProjectStakeholderRepository.list_for_project
_get_project_stakeholders(project_id) ==
    {ps \in project_stakeholders : ps.project_id = project_id}

(***************************************************************************)
(* DependencyService                                                       *)
(***************************************************************************)
\* adjacency.get(node, []) : the successors listed for node
Adjacency(existing_dependencies, node) ==
    SetToSeq({d.successor_stage_id :
                 d \in {e \in Elements(existing_dependencies) :
                            e.predecessor_stage_id = node}})

\* the while loop of _would_create_cycle: stack.pop() takes the last element
RECURSIVE CycleSearch(_, _, _, _)
CycleSearch(stack, visited, new_predecessor_id, existing_dependencies) ==
    IF stack = <<>> THEN FALSE
    ELSE LET node == stack[Len(stack)]
             rest == SubSeq(stack, 1, Len(stack) - 1)
         IN IF node = new_predecessor_id THEN TRUE
            ELSE IF node \in visited
                 THEN CycleSearch(rest, visited, new_predecessor_id,
                                  existing_dependencies)
                 ELSE CycleSearch(rest \o Adjacency(existing_dependencies, node),
                                  visited \cup {node}, new_predecessor_id,
                                  existing_dependencies)

\* faulty variant: the search starts at the new predecessor and looks for the new successor
would_create_cycle_backwards(new_predecessor_id, new_successor_id, existing_dependencies) ==
    CycleSearch(<<new_predecessor_id>>, {}, new_successor_id, existing_dependencies)

\* faulty variant: only a direct edge successor -> predecessor counts as a cycle
would_create_cycle_direct(new_predecessor_id, new_successor_id, existing_dependencies) ==
    \E d \in Elements(existing_dependencies) :
        /\ d.predecessor_stage_id = new_successor_id
        /\ d.successor_stage_id = new_predecessor_id

_would_create_cycle(new_predecessor_id, new_successor_id, existing_dependencies) ==
    CycleSearch(<<new_successor_id>>, {}, new_predecessor_id, existing_dependencies)

\* the duplicate scan of add_dependency
DependencyExists(predecessor_stage_id, successor_stage_id, existing_dependencies) ==
    \E dep \in Elements(existing_dependencies) :
        /\ dep.predecessor_stage_id = predecessor_stage_id
        /\ dep.successor_stage_id = successor_stage_id

StageDependency(project_id, predecessor_stage_id, successor_stage_id) ==
    [project_id |-> project_id,
     predecessor_stage_id |-> predecessor_stage_id,
     successor_stage_id |-> successor_stage_id]

\* faulty variant: the self-loop and duplicate checks are skipped
add_dependency_unchecked(project_id, predecessor_stage_id, successor_stage_id, existing_dependencies, project_stakeholders_, acting_user_id) ==
    LET dep == StageDependency(project_id, predecessor_stage_id, successor_stage_id)
    IN IF ~ _require_role(project_stakeholders_, acting_user_id, {LEAD_PROJECT_MANAGER})
       THEN [error |-> ERR_ROLE, dep |-> dep]
       ELSE IF predecessor_stage_id # successor_stage_id
               /\ _would_create_cycle(predecessor_stage_id, successor_stage_id,
                                      existing_dependencies)
       THEN [error |-> ERR_CIRCULAR, dep |-> dep]
       ELSE [error |-> OK, dep |-> dep]

add_dependency(project_id, predecessor_stage_id, successor_stage_id, existing_dependencies, project_stakeholders_, acting_user_id) ==
    LET dep == StageDependency(project_id, predecessor_stage_id, successor_stage_id)
    IN IF ~ _require_role(project_stakeholders_, acting_user_id, {LEAD_PROJECT_MANAGER})
       THEN [error |-> ERR_ROLE, dep |-> dep]
       ELSE IF predecessor_stage_id = successor_stage_id
       THEN [error |-> ERR_SELF_DEPENDENCY, dep |-> dep]
       ELSE IF DependencyExists(predecessor_stage_id, successor_stage_id,
                                existing_dependencies)
       THEN [error |-> ERR_DEPENDENCY_EXISTS, dep |-> dep]
       ELSE IF _would_create_cycle(predecessor_stage_id, successor_stage_id,
                                   existing_dependencies)
       THEN [error |-> ERR_CIRCULAR, dep |-> dep]
       ELSE [error |-> OK, dep |-> dep]

remove_dependency(dependency, project_stakeholders_, acting_user_id) ==
    IF ~ _require_role(project_stakeholders_, acting_user_id, {LEAD_PROJECT_MANAGER})
    THEN [error |-> ERR_ROLE, dep |-> dependency]
    ELSE [error |-> OK, dep |-> dependency]

(***************************************************************************)
(* StakeholderService                                                      *)
(***************************************************************************)
ProjectStakeholder(project_id, stakeholder_id, role) ==
    [project_id |-> project_id, stakeholder_id |-> stakeholder_id, role |-> role]

assign_to_project(project_id, stakeholder_id, role, existing_assignments) ==
    IF \E ps \in existing_assignments :
           ps.stakeholder_id = stakeholder_id /\ ps.role = role
    THEN [error |-> ERR_ROLE_ALREADY_HELD,
          ps |-> ProjectStakeholder(project_id, stakeholder_id, role)]
    ELSE [error |-> OK, ps |-> ProjectStakeholder(project_id, stakeholder_id, role)]

remove_from_project(stakeholder_id, role, existing_assignments) ==
    LET found == {ps \in existing_assignments :
                      ps.stakeholder_id = stakeholder_id /\ ps.role = role}
    IN IF found = {}
       THEN [error |-> ERR_NO_ASSIGNMENT, found |-> found]
       ELSE [error |-> OK, found |-> found]

(***************************************************************************)
(* Text and time                                                           *)
(***************************************************************************)
\* the characters str.strip() removes
Whitespace == {" ", "\t", "\n"}

RECURSIVE lstrip(_)
lstrip(text) ==
    IF text # <<>> /\ Head(text) \in Whitespace THEN lstrip(Tail(text)) ELSE text

RECURSIVE rstrip(_)
rstrip(text) ==
    IF text # <<>> /\ text[Len(text)] \in Whitespace
    THEN rstrip(SubSeq(text, 1, Len(text) - 1))
    ELSE text

\* str.strip(): leading and trailing whitespace removed
strip(text) == rstrip(lstrip(text))

\* `not text.strip()`
IsBlank(text) == strip(text) = <<>>

_utcnow == now

(***************************************************************************)
(* ChangeControlService                                                    *)
(***************************************************************************)
ChangeRequest(id, project_id, requested_by_id, approver_id, change_type, reason, schedule_impact_days, status, submitted_at) ==
    [id |-> id,
     project_id |-> project_id,
     requested_by_id |-> requested_by_id,
     approver_id |-> approver_id,
     change_type |-> change_type,
     reason |-> reason,
     schedule_impact_days |-> schedule_impact_days,
     status |-> status,
     reviewed_at |-> None,
     reviewer_comments |-> <<>>,
     submitted_at |-> submitted_at,
     updated_at |-> submitted_at]

\* uuid4() of a new ChangeRequest
NewChangeRequestId == Len(change_requests) + 1

\* faulty variant: only the empty reason is refused
submit_change_request_unstripped(project_id, requested_by_id, approver_id, change_type, reason, schedule_impact_days) ==
    LET cr == ChangeRequest(NewChangeRequestId, project_id, requested_by_id,
                            approver_id, change_type, reason, schedule_impact_days,
                            PENDING, _utcnow)
    IN IF reason = <<>>
       THEN [error |-> ERR_REASON, cr |-> cr]
       ELSE [error |-> OK, cr |-> cr]

submit_change_request(project_id, requested_by_id, approver_id, change_type, reason, schedule_impact_days) ==
    LET cr == ChangeRequest(NewChangeRequestId, project_id, requested_by_id,
                            approver_id, change_type, reason, schedule_impact_days,
                            PENDING, _utcnow)
    IN IF IsBlank(reason)
       THEN [error |-> ERR_REASON, cr |-> cr]
       ELSE [error |-> OK, cr |-> cr]

\* the four assignments that close a review
Reviewed(change_request, status, reviewer_comments) ==
    [change_request EXCEPT !.status = status,
                           !.reviewed_at = _utcnow,
                           !.reviewer_comments = reviewer_comments,
                           !.updated_at = _utcnow]

\* faulty variant: the status of the request is not looked at
approve_any_status(change_request, reviewer_id, reviewer_comments, project_stakeholders_) ==
    IF change_request.approver_id # reviewer_id
    THEN [error |-> ERR_APPROVER_APPROVE, cr |-> change_request]
    ELSE IF IsBlank(reviewer_comments)
    THEN [error |-> ERR_COMMENTS_APPROVE, cr |-> change_request]
    ELSE IF change_request.change_type = SCOPE_CHANGE
            /\ ~ _require_role(project_stakeholders_, reviewer_id, {OWNER_REPRESENTATIVE})
    THEN [error |-> ERR_ROLE, cr |-> change_request]
    ELSE [error |-> OK, cr |-> Reviewed(change_request, APPROVED, reviewer_comments)]

\* faulty variant: a scope change is approved without the owner representative check
approve_without_owner_check(change_request, reviewer_id, reviewer_comments, project_stakeholders_) ==
    IF change_request.status # PENDING
    THEN [error |-> ERR_NOT_PENDING_APPROVE, cr |-> change_request]
    ELSE IF change_request.approver_id # reviewer_id
    THEN [error |-> ERR_APPROVER_APPROVE, cr |-> change_request]
    ELSE IF IsBlank(reviewer_comments)
    THEN [error |-> ERR_COMMENTS_APPROVE, cr |-> change_request]
    ELSE [error |-> OK, cr |-> Reviewed(change_request, APPROVED, reviewer_comments)]

approve_change_request(change_request, reviewer_id, reviewer_comments, project_stakeholders_) ==
    IF change_request.status # PENDING
    THEN [error |-> ERR_NOT_PENDING_APPROVE, cr |-> change_request]
    ELSE IF change_request.approver_id # reviewer_id
    THEN [error |-> ERR_APPROVER_APPROVE, cr |-> change_request]
    ELSE IF IsBlank(reviewer_comments)
    THEN [error |-> ERR_COMMENTS_APPROVE, cr |-> change_request]
    ELSE IF change_request.change_type = SCOPE_CHANGE
            /\ ~ _require_role(project_stakeholders_, reviewer_id, {OWNER_REPRESENTATIVE})
    THEN [error |-> ERR_ROLE, cr |-> change_request]
    ELSE [error |-> OK, cr |-> Reviewed(change_request, APPROVED, reviewer_comments)]

\* faulty variant: comments are tested for emptiness without being stripped
reject_unstripped_comments(change_request, reviewer_id, reviewer_comments, project_stakeholders_) ==
    IF change_request.status # PENDING
    THEN [error |-> ERR_NOT_PENDING_REJECT, cr |-> change_request]
    ELSE IF change_request.approver_id # reviewer_id
    THEN [error |-> ERR_APPROVER_REJECT, cr |-> change_request]
    ELSE IF reviewer_comments = <<>>
    THEN [error |-> ERR_COMMENTS_REJECT, cr |-> change_request]
    ELSE [error |-> OK, cr |-> Reviewed(change_request, REJECTED, reviewer_comments)]

reject_change_request(change_request, reviewer_id, reviewer_comments, project_stakeholders_) ==
    IF change_request.status # PENDING
    THEN [error |-> ERR_NOT_PENDING_REJECT, cr |-> change_request]
    ELSE IF change_request.approver_id # reviewer_id
    THEN [error |-> ERR_APPROVER_REJECT, cr |-> change_request]
    ELSE IF IsBlank(reviewer_comments)
    THEN [error |-> ERR_COMMENTS_REJECT, cr |-> change_request]
    ELSE [error |-> OK, cr |-> Reviewed(change_request, REJECTED, reviewer_comments)]

(***************************************************************************)
(* BaselineService                                                         *)
(***************************************************************************)
Baseline(id, project_id, version_number, set_by_id, change_request_id) ==
    [id |-> id,
     project_id |-> project_id,
     version_number |-> version_number,
     set_by_id |-> set_by_id,
     set_at |-> _utcnow,
     is_active |-> TRUE,
     change_request_id |-> change_request_id]

\* uuid4() of a new Baseline
NewBaselineId == Len(baselines) + 1

BaselineStageSnapshot(baseline, stage) ==
    [baseline_id |-> baseline.id,
     stage_id |-> stage.id,
     project_id |-> stage.project_id,
     baseline_start_date |-> stage.planned_start_date,
     baseline_end_date |-> stage.planned_end_date,
     baseline_duration_days |-> stage.planned_duration_days,
     snapshotted_at |-> _utcnow]

\* faulty variant: a stage without both planned dates gets no snapshot
_snapshot_stages_dated(baseline, stages_) ==
    [snapshots |-> {BaselineStageSnapshot(baseline, stage) :
                       stage \in {x \in stages_ : x.planned_duration_days # None}},
     updated_stages |->
        {[stage EXCEPT !.baseline_start_date = stage.planned_start_date,
                       !.baseline_end_date = stage.planned_end_date,
                       !.baseline_duration_days = stage.planned_duration_days,
                       !.updated_at = _utcnow] : stage \in stages_}]

\* one snapshot per stage, and the stages with their baseline fields written
_snapshot_stages(baseline, stages_) ==
    [snapshots |-> {BaselineStageSnapshot(baseline, stage) : stage \in stages_},
     updated_stages |->
        {[stage EXCEPT !.baseline_start_date = stage.planned_start_date,
                       !.baseline_end_date = stage.planned_end_date,
                       !.baseline_duration_days = stage.planned_duration_days,
                       !.updated_at = _utcnow] : stage \in stages_}]

\* what a failed set_initial_baseline or reset_baseline hands back: nothing
NoBaseline(error, project) ==
    [error |-> error, project |-> project, baseline |-> None, snapshots |-> {},
     updated_stages |-> {}, updated_previous |-> {}]

\* what a successful one hands back
NewBaseline(project, baseline, stages_, updated_previous) ==
    LET snap == _snapshot_stages(baseline, stages_)
    IN [error |-> OK,
        project |-> [project EXCEPT !.active_baseline_id = baseline.id],
        baseline |-> baseline,
        snapshots |-> snap.snapshots,
        updated_stages |-> snap.updated_stages,
        updated_previous |-> updated_previous]

\* faulty variant: a project that has an active baseline is given another first one
set_initial_baseline_again(project, stages_, change_request, set_by_id) ==
    IF change_request.status # APPROVED
    THEN NoBaseline(ERR_NOT_APPROVED_SET, project)
    ELSE IF change_request.change_type # INITIAL_BASELINE
    THEN NoBaseline(ERR_NOT_INITIAL_TYPE, project)
    ELSE NewBaseline(project,
                     Baseline(NewBaselineId, project.id, 1, set_by_id, change_request.id),
                     stages_, {})

set_initial_baseline(project, stages_, change_request, set_by_id) ==
    IF change_request.status # APPROVED
    THEN NoBaseline(ERR_NOT_APPROVED_SET, project)
    ELSE IF change_request.change_type # INITIAL_BASELINE
    THEN NoBaseline(ERR_NOT_INITIAL_TYPE, project)
    ELSE IF project.active_baseline_id # None
    THEN NoBaseline(ERR_BASELINE_EXISTS, project)
    ELSE NewBaseline(project,
                     Baseline(NewBaselineId, project.id, 1, set_by_id, change_request.id),
                     stages_, {})

\* max(values, default=0)
Max0(values) ==
    IF values = {} THEN 0 ELSE CHOOSE v \in values : \A w \in values : w <= v

\* the loop that deactivates the active baselines
Deactivated(previous_baselines) ==
    {[b EXCEPT !.is_active = FALSE] : b \in previous_baselines}

\* faulty variant: a scope change resets the baseline whatever role its approver holds
reset_baseline_without_owner_check(project, stages_, previous_baselines, change_request, set_by_id, project_stakeholders_) ==
    IF change_request.status # APPROVED
    THEN NoBaseline(ERR_NOT_APPROVED_RESET, project)
    ELSE IF project.active_baseline_id = None
    THEN NoBaseline(ERR_NO_ACTIVE_BASELINE, project)
    ELSE LET next_version == Max0({b.version_number : b \in previous_baselines}) + 1
         IN NewBaseline(project,
                        Baseline(NewBaselineId, project.id, next_version, set_by_id,
                                 change_request.id),
                        stages_, Deactivated(previous_baselines))

\* faulty variant: a project without an active baseline is reset all the same
reset_baseline_without_initial(project, stages_, previous_baselines, change_request, set_by_id, project_stakeholders_) ==
    IF change_request.status # APPROVED
    THEN NoBaseline(ERR_NOT_APPROVED_RESET, project)
    ELSE IF change_request.change_type = SCOPE_CHANGE
            /\ ~ _require_role(project_stakeholders_, change_request.approver_id,
                               {OWNER_REPRESENTATIVE})
    THEN NoBaseline(ERR_ROLE, project)
    ELSE LET updated_previous == Deactivated(previous_baselines)
             next_version == Max0({b.version_number : b \in previous_baselines}) + 1
         IN NewBaseline(project,
                        Baseline(NewBaselineId, project.id, next_version, set_by_id,
                                 change_request.id),
                        stages_, updated_previous)

\* faulty variant: the next version is the version of the active baseline plus one,
\* read after the loop has deactivated every baseline
reset_baseline_version_of_active(project, stages_, previous_baselines, change_request, set_by_id, project_stakeholders_) ==
    IF change_request.status # APPROVED
    THEN NoBaseline(ERR_NOT_APPROVED_RESET, project)
    ELSE IF project.active_baseline_id = None
    THEN NoBaseline(ERR_NO_ACTIVE_BASELINE, project)
    ELSE IF change_request.change_type = SCOPE_CHANGE
            /\ ~ _require_role(project_stakeholders_, change_request.approver_id,
                               {OWNER_REPRESENTATIVE})
    THEN NoBaseline(ERR_ROLE, project)
    ELSE LET updated_previous == Deactivated(previous_baselines)
             next_version ==
                 Max0({b.version_number :
                          b \in {x \in updated_previous : x.is_active}}) + 1
         IN NewBaseline(project,
                        Baseline(NewBaselineId, project.id, next_version, set_by_id,
                                 change_request.id),
                        stages_, updated_previous)

\* faulty variant: the previous baselines are handed back as they were
reset_baseline_keeps_active(project, stages_, previous_baselines, change_request, set_by_id, project_stakeholders_) ==
    IF change_request.status # APPROVED
    THEN NoBaseline(ERR_NOT_APPROVED_RESET, project)
    ELSE IF project.active_baseline_id = None
    THEN NoBaseline(ERR_NO_ACTIVE_BASELINE, project)
    ELSE IF change_request.change_type = SCOPE_CHANGE
            /\ ~ _require_role(project_stakeholders_, change_request.approver_id,
                               {OWNER_REPRESENTATIVE})
    THEN NoBaseline(ERR_ROLE, project)
    ELSE LET next_version == Max0({b.version_number : b \in previous_baselines}) + 1
         IN NewBaseline(project,
                        Baseline(NewBaselineId, project.id, next_version, set_by_id,
                                 change_request.id),
                        stages_, previous_baselines)

\* faulty variant: the status of the change request is not looked at
reset_baseline_any_status(project, stages_, previous_baselines, change_request, set_by_id, project_stakeholders_) ==
    IF project.active_baseline_id = None
    THEN NoBaseline(ERR_NO_ACTIVE_BASELINE, project)
    ELSE IF change_request.change_type = SCOPE_CHANGE
            /\ ~ _require_role(project_stakeholders_, change_request.approver_id,
                               {OWNER_REPRESENTATIVE})
    THEN NoBaseline(ERR_ROLE, project)
    ELSE LET next_version == Max0({b.version_number : b \in previous_baselines}) + 1
         IN NewBaseline(project,
                        Baseline(NewBaselineId, project.id, next_version, set_by_id,
                                 change_request.id),
                        stages_, Deactivated(previous_baselines))

\* project_stakeholders is always passed by the use case and approver_id is
\* always set by submit_change_request, so the `is None` branch of the
\* SCOPE_CHANGE check is never taken
reset_baseline(project, stages_, previous_baselines, change_request, set_by_id, project_stakeholders_) ==
    IF change_request.status # APPROVED
    THEN NoBaseline(ERR_NOT_APPROVED_RESET, project)
    ELSE IF project.active_baseline_id = None
    THEN NoBaseline(ERR_NO_ACTIVE_BASELINE, project)
    ELSE IF change_request.change_type = SCOPE_CHANGE
            /\ ~ _require_role(project_stakeholders_, change_request.approver_id,
                               {OWNER_REPRESENTATIVE})
    THEN NoBaseline(ERR_ROLE, project)
    ELSE LET next_version == Max0({b.version_number : b \in previous_baselines}) + 1
         IN NewBaseline(project,
                        Baseline(NewBaselineId, project.id, next_version, set_by_id,
                                 change_request.id),
                        stages_, Deactivated(previous_baselines))

(***************************************************************************)
(* Numbers: sums, and the float a division yields.  Progress percentages   *)
(* are whole numbers; a mean sum/len is kept as the reduced fraction, so   *)
(* that two means are equal exactly when the floats are.                   *)
(***************************************************************************)
RECURSIVE GCD(_, _)
GCD(a, b) == IF b = 0 THEN a ELSE GCD(b, a % b)

\* total / count
Quotient(total, count) ==
    LET g == GCD(total, count) IN [num |-> total \div g, den |-> count \div g]

\* 0.0
Zero == [num |-> 0, den |-> 1]

\* sum(...) over a sequence of numbers
RECURSIVE SumSeq(_)
SumSeq(numbers) ==
    IF numbers = <<>> THEN 0 ELSE Head(numbers) + SumSeq(Tail(numbers))

\* x or 0
OrZero(x) == IF x = None THEN 0 ELSE x

\* min(...) and max(...) of the dates given, None when there is none
MinOrNone(dates) ==
    IF dates = {} THEN None ELSE CHOOSE d \in dates : \A e \in dates : d <= e

MaxOrNone(dates) ==
    IF dates = {} THEN None ELSE CHOOSE d \in dates : \A e \in dates : e <= d

\* (end - start).days when both dates are given
Duration(start_date, end_date) ==
    IF start_date # None /\ end_date # None THEN end_date - start_date ELSE None

(***************************************************************************)
(* ProjectService                                                          *)
(***************************************************************************)
Project(id) ==
    [id |-> id,
     planned_start_date |-> None,
     planned_end_date |-> None,
     overall_progress_pct |-> Zero,
     total_planned_duration_days |-> 0,
     total_actual_duration_days |-> 0,
     total_baseline_duration_days |-> 0,
     active_baseline_id |-> None,
     updated_at |-> 0]

\* the dates are assigned first and validated afterwards: the project handed
\* back with an error carries the new dates
update_project(project, planned_start_date, planned_end_date) ==
    LET with_start == IF planned_start_date # None
                      THEN [project EXCEPT !.planned_start_date = planned_start_date]
                      ELSE project
        with_end == IF planned_end_date # None
                    THEN [with_start EXCEPT !.planned_end_date = planned_end_date]
                    ELSE with_start
    IN IF /\ with_end.planned_start_date # None
          /\ with_end.planned_end_date # None
          /\ with_end.planned_end_date < with_end.planned_start_date
       THEN [error |-> ERR_DATES, project |-> with_end]
       ELSE [error |-> OK, project |-> [with_end EXCEPT !.updated_at = _utcnow]]

\* faulty variant: stages without progress are left out of the mean
recalculate_progress_started_only(project, stages_) ==
    LET seq == SetToSeq({stage \in stages_ : stage.progress_pct > 0})
    IN IF seq = <<>>
       THEN [project EXCEPT !.overall_progress_pct = Zero,
                            !.total_planned_duration_days = 0,
                            !.total_actual_duration_days = 0,
                            !.total_baseline_duration_days = 0,
                            !.updated_at = _utcnow]
       ELSE [project EXCEPT
               !.overall_progress_pct =
                   Quotient(SumSeq([i \in DOMAIN seq |-> seq[i].progress_pct]), Len(seq)),
               !.total_planned_duration_days =
                   SumSeq([i \in DOMAIN seq |-> OrZero(seq[i].planned_duration_days)]),
               !.total_actual_duration_days =
                   SumSeq([i \in DOMAIN seq |-> OrZero(seq[i].actual_duration_days)]),
               !.total_baseline_duration_days =
                   SumSeq([i \in DOMAIN seq |-> OrZero(seq[i].baseline_duration_days)]),
               !.updated_at = _utcnow]

recalculate_progress(project, stages_) ==
    LET seq == SetToSeq(stages_)
    IN IF stages_ = {}
       THEN [project EXCEPT !.overall_progress_pct = Zero,
                            !.total_planned_duration_days = 0,
                            !.total_actual_duration_days = 0,
                            !.total_baseline_duration_days = 0,
                            !.updated_at = _utcnow]
       ELSE [project EXCEPT
               !.overall_progress_pct =
                   Quotient(SumSeq([i \in DOMAIN seq |-> seq[i].progress_pct]), Len(seq)),
               !.total_planned_duration_days =
                   SumSeq([i \in DOMAIN seq |-> OrZero(seq[i].planned_duration_days)]),
               !.total_actual_duration_days =
                   SumSeq([i \in DOMAIN seq |-> OrZero(seq[i].actual_duration_days)]),
               !.total_baseline_duration_days =
                   SumSeq([i \in DOMAIN seq |-> OrZero(seq[i].baseline_duration_days)]),
               !.updated_at = _utcnow]

(***************************************************************************)
(* PhaseService                                                            *)
(***************************************************************************)
Phase(id, project_id) ==
    [id |-> id,
     project_id |-> project_id,
     overall_progress_pct |-> Zero,
     planned_start_date |-> None,
     planned_end_date |-> None,
     actual_start_date |-> None,
     actual_end_date |-> None,
     updated_at |-> 0]

\* the stages of the phase among those handed in
StagesOfPhase(phase, stages_) == {s \in stages_ : s.phase_id = phase.id}

\* hands back the stages to delete with the phase
\* faulty variant: only finished work blocks the removal of a phase
remove_phase_unless_finished(phase, stages_, project_stakeholders_, acting_user_id) ==
    LET phases_stages == StagesOfPhase(phase, stages_)
    IN IF ~ _require_role(project_stakeholders_, acting_user_id, {LEAD_PROJECT_MANAGER})
       THEN [error |-> ERR_ROLE, phase |-> phase, stages |-> {}]
       ELSE IF \E stage \in phases_stages : stage.actual_end_date # None
       THEN [error |-> ERR_PHASE_HAS_ACTUALS, phase |-> phase, stages |-> {}]
       ELSE [error |-> OK, phase |-> phase, stages |-> phases_stages]

remove_phase(phase, stages_, project_stakeholders_, acting_user_id) ==
    LET phases_stages == StagesOfPhase(phase, stages_)
    IN IF ~ _require_role(project_stakeholders_, acting_user_id, {LEAD_PROJECT_MANAGER})
       THEN [error |-> ERR_ROLE, phase |-> phase, stages |-> {}]
       ELSE IF \E stage \in phases_stages : stage.actual_start_date # None
       THEN [error |-> ERR_PHASE_HAS_ACTUALS, phase |-> phase, stages |-> {}]
       ELSE [error |-> OK, phase |-> phase, stages |-> phases_stages]

recalculate_phase_progress(phase, stages_) ==
    LET phase_stages == StagesOfPhase(phase, stages_)
        seq == SetToSeq(phase_stages)
        Dates(field) == {s[field] : s \in phase_stages} \ {None}
    IN IF phase_stages = {}
       THEN [phase EXCEPT !.overall_progress_pct = Zero, !.updated_at = _utcnow]
       ELSE [phase EXCEPT
               !.overall_progress_pct =
                   Quotient(SumSeq([i \in DOMAIN seq |-> seq[i].progress_pct]), Len(seq)),
               !.planned_start_date = MinOrNone(Dates("planned_start_date")),
               !.planned_end_date = MaxOrNone(Dates("planned_end_date")),
               !.actual_start_date = MinOrNone(Dates("actual_start_date")),
               !.actual_end_date = MaxOrNone(Dates("actual_end_date")),
               !.updated_at = _utcnow]

(***************************************************************************)
(* StageService                                                            *)
(***************************************************************************)
\* a Stage as the dataclass and add_stage initialise it
Stage(id, phase_id, project_id, planned_start_date, planned_end_date) ==
    [id |-> id,
     phase_id |-> phase_id,
     project_id |-> project_id,
     planned_start_date |-> planned_start_date,
     planned_end_date |-> planned_end_date,
     planned_duration_days |-> Duration(planned_start_date, planned_end_date),
     actual_start_date |-> None,
     actual_end_date |-> None,
     actual_duration_days |-> None,
     baseline_start_date |-> None,
     baseline_end_date |-> None,
     baseline_duration_days |-> None,
     status |-> NOT_STARTED,
     progress_pct |-> 0,
     comments |-> <<>>,
     deviation_days |-> None,
     deviation_status |-> NoneStr,
     updated_at |-> _utcnow,
     updated_by_id |-> NoneStr]

\* planned_end_date < planned_start_date, both given
EndBeforeStart(start_date, end_date) ==
    start_date # None /\ end_date # None /\ end_date < start_date

add_stage(id, phase_id, project_id, planned_start_date, planned_end_date, project_stakeholders_, acting_user_id) ==
    LET stage == Stage(id, phase_id, project_id, planned_start_date, planned_end_date)
    IN IF ~ _require_role(project_stakeholders_, acting_user_id, {LEAD_PROJECT_MANAGER})
       THEN [error |-> ERR_ROLE, stage |-> stage]
       ELSE IF EndBeforeStart(planned_start_date, planned_end_date)
       THEN [error |-> ERR_DATES, stage |-> stage]
       ELSE [error |-> OK, stage |-> stage]

\* faulty variant: the new planned dates are written into the baseline fields too
update_stage_schedule_rebaselines(stage, planned_start_date, planned_end_date, project_stakeholders_, acting_user_id) ==
    IF ~ _require_role(project_stakeholders_, acting_user_id, {LEAD_PROJECT_MANAGER})
    THEN [error |-> ERR_ROLE, stage |-> stage]
    ELSE IF EndBeforeStart(planned_start_date, planned_end_date)
    THEN [error |-> ERR_DATES, stage |-> stage]
    ELSE [error |-> OK,
          stage |-> [stage EXCEPT
                       !.planned_start_date = planned_start_date,
                       !.planned_end_date = planned_end_date,
                       !.baseline_start_date = planned_start_date,
                       !.baseline_end_date = planned_end_date,
                       !.updated_at = _utcnow,
                       !.updated_by_id = acting_user_id]]

\* the duration is recomputed only when both dates are given
update_stage_schedule(stage, planned_start_date, planned_end_date, project_stakeholders_, acting_user_id) ==
    IF ~ _require_role(project_stakeholders_, acting_user_id, {LEAD_PROJECT_MANAGER})
    THEN [error |-> ERR_ROLE, stage |-> stage]
    ELSE IF EndBeforeStart(planned_start_date, planned_end_date)
    THEN [error |-> ERR_DATES, stage |-> stage]
    ELSE [error |-> OK,
          stage |-> [stage EXCEPT
                       !.planned_start_date = planned_start_date,
                       !.planned_end_date = planned_end_date,
                       !.planned_duration_days =
                           IF planned_start_date # None /\ planned_end_date # None
                           THEN planned_end_date - planned_start_date
                           ELSE @,
                       !.updated_at = _utcnow,
                       !.updated_by_id = acting_user_id]]

StageStatusUpdate(stage, new_status, new_progress_pct, actual_start_date, actual_end_date, comments, acting_user_id) ==
    [stage_id |-> stage.id,
     project_id |-> stage.project_id,
     updated_by_id |-> acting_user_id,
     previous_status |-> stage.status,
     new_status |-> new_status,
     previous_progress_pct |-> stage.progress_pct,
     new_progress_pct |-> new_progress_pct,
     actual_start_date |-> actual_start_date,
     actual_end_date |-> actual_end_date,
     comments |-> comments,
     updated_at |-> _utcnow]

\* what a failed apply_progress_update hands back in place of a history record
NoUpdate == [stage_id |-> NoneStr]

\* faulty variant: a stage is marked completed whatever actual dates come with it
apply_progress_update_completed_unchecked(stage, new_status, new_progress_pct, actual_start_date, actual_end_date, comments, acting_user_id) ==
    LET update == StageStatusUpdate(stage, new_status, new_progress_pct,
                                    actual_start_date, actual_end_date, comments,
                                    acting_user_id)
        failed(error) == [error |-> error, stage |-> stage, update |-> NoUpdate]
    IN IF ~ (0 <= new_progress_pct /\ new_progress_pct <= 100)
       THEN failed(ERR_PROGRESS_RANGE)
       ELSE IF actual_end_date # None /\ actual_start_date = None
       THEN failed(ERR_END_WITHOUT_START)
       ELSE [error |-> OK,
             update |-> update,
             stage |-> [stage EXCEPT
                          !.status = new_status,
                          !.progress_pct = new_progress_pct,
                          !.actual_start_date = actual_start_date,
                          !.actual_end_date = actual_end_date,
                          !.actual_duration_days =
                              IF actual_start_date # None /\ actual_end_date # None
                              THEN actual_end_date - actual_start_date
                              ELSE @,
                          !.comments = comments,
                          !.updated_at = _utcnow,
                          !.updated_by_id = acting_user_id]]

\* faulty variant: any number is taken as the progress percentage
apply_progress_update_any_progress(stage, new_status, new_progress_pct, actual_start_date, actual_end_date, comments, acting_user_id) ==
    LET update == StageStatusUpdate(stage, new_status, new_progress_pct,
                                    actual_start_date, actual_end_date, comments,
                                    acting_user_id)
        failed(error) == [error |-> error, stage |-> stage, update |-> NoUpdate]
    IN IF actual_end_date # None /\ actual_start_date = None
       THEN failed(ERR_END_WITHOUT_START)
       ELSE IF new_status = COMPLETED
               /\ (actual_start_date = None \/ actual_end_date = None)
       THEN failed(ERR_COMPLETED_WITHOUT_DATES)
       ELSE [error |-> OK,
             update |-> update,
             stage |-> [stage EXCEPT
                          !.status = new_status,
                          !.progress_pct = new_progress_pct,
                          !.actual_start_date = actual_start_date,
                          !.actual_end_date = actual_end_date,
                          !.actual_duration_days =
                              IF actual_start_date # None /\ actual_end_date # None
                              THEN actual_end_date - actual_start_date
                              ELSE @,
                          !.comments = comments,
                          !.updated_at = _utcnow,
                          !.updated_by_id = acting_user_id]]

\* faulty variant: the history record is built after the stage was changed
apply_progress_update_logs_after(stage, new_status, new_progress_pct, actual_start_date, actual_end_date, comments, acting_user_id) ==
    LET update == StageStatusUpdate([stage EXCEPT !.status = new_status,
                                                  !.progress_pct = new_progress_pct],
                                    new_status, new_progress_pct,
                                    actual_start_date, actual_end_date, comments,
                                    acting_user_id)
        failed(error) == [error |-> error, stage |-> stage, update |-> NoUpdate]
    IN IF ~ (0 <= new_progress_pct /\ new_progress_pct <= 100)
       THEN failed(ERR_PROGRESS_RANGE)
       ELSE IF actual_end_date # None /\ actual_start_date = None
       THEN failed(ERR_END_WITHOUT_START)
       ELSE IF new_status = COMPLETED
               /\ (actual_start_date = None \/ actual_end_date = None)
       THEN failed(ERR_COMPLETED_WITHOUT_DATES)
       ELSE [error |-> OK,
             update |-> update,
             stage |-> [stage EXCEPT
                          !.status = new_status,
                          !.progress_pct = new_progress_pct,
                          !.actual_start_date = actual_start_date,
                          !.actual_end_date = actual_end_date,
                          !.actual_duration_days =
                              IF actual_start_date # None /\ actual_end_date # None
                              THEN actual_end_date - actual_start_date
                              ELSE @,
                          !.comments = comments,
                          !.updated_at = _utcnow,
                          !.updated_by_id = acting_user_id]]

apply_progress_update(stage, new_status, new_progress_pct, actual_start_date, actual_end_date, comments, acting_user_id) ==
    LET update == StageStatusUpdate(stage, new_status, new_progress_pct,
                                    actual_start_date, actual_end_date, comments,
                                    acting_user_id)
        failed(error) == [error |-> error, stage |-> stage, update |-> NoUpdate]
    IN IF ~ (0 <= new_progress_pct /\ new_progress_pct <= 100)
       THEN failed(ERR_PROGRESS_RANGE)
       ELSE IF actual_end_date # None /\ actual_start_date = None
       THEN failed(ERR_END_WITHOUT_START)
       ELSE IF new_status = COMPLETED
               /\ (actual_start_date = None \/ actual_end_date = None)
       THEN failed(ERR_COMPLETED_WITHOUT_DATES)
       ELSE [error |-> OK,
             update |-> update,
             stage |-> [stage EXCEPT
                          !.status = new_status,
                          !.progress_pct = new_progress_pct,
                          !.actual_start_date = actual_start_date,
                          !.actual_end_date = actual_end_date,
                          !.actual_duration_days =
                              IF actual_start_date # None /\ actual_end_date # None
                              THEN actual_end_date - actual_start_date
                              ELSE @,
                          !.comments = comments,
                          !.updated_at = _utcnow,
                          !.updated_by_id = acting_user_id]]

\* faulty variant: the difference is taken from the planned end to the baseline end
compute_deviation_reversed(stage) ==
    IF stage.planned_end_date = None \/ stage.baseline_end_date = None
    THEN [stage EXCEPT !.deviation_days = None, !.deviation_status = NoneStr]
    ELSE LET delta == stage.baseline_end_date - stage.planned_end_date
         IN [stage EXCEPT
               !.deviation_days = delta,
               !.deviation_status = IF delta > 0 THEN DELAYED
                                    ELSE IF delta < 0 THEN AHEAD
                                    ELSE ON_BASELINE]

\* faulty variant: the difference is added to the deviation the stage already carries
compute_deviation_accumulating(stage) ==
    IF stage.planned_end_date = None \/ stage.baseline_end_date = None
    THEN [stage EXCEPT !.deviation_days = None, !.deviation_status = NoneStr]
    ELSE LET delta == OrZero(stage.deviation_days)
                      + (stage.planned_end_date - stage.baseline_end_date)
         IN [stage EXCEPT
               !.deviation_days = delta,
               !.deviation_status = IF delta > 0 THEN DELAYED
                                    ELSE IF delta < 0 THEN AHEAD
                                    ELSE ON_BASELINE]

compute_deviation(stage) ==
    IF stage.planned_end_date = None \/ stage.baseline_end_date = None
    THEN [stage EXCEPT !.deviation_days = None, !.deviation_status = NoneStr]
    ELSE LET delta == stage.planned_end_date - stage.baseline_end_date
         IN [stage EXCEPT
               !.deviation_days = delta,
               !.deviation_status = IF delta > 0 THEN DELAYED
                                    ELSE IF delta < 0 THEN AHEAD
                                    ELSE ON_BASELINE]

(***************************************************************************)
(* AuditService and NotificationService                                    *)
(***************************************************************************)
\* faulty variant: every audit entry is numbered as the first of its project
record_baseline_change_first(project_id, baseline, change_request, existing_entries) ==
    [project_id |-> project_id,
     sequence_number |-> 1,
     baseline_id |-> baseline.id,
     change_request_id |-> change_request.id,
     changed_by_id |-> change_request.requested_by_id,
     approved_by_id |-> change_request.approver_id,
     change_type |-> change_request.change_type,
     reason |-> change_request.reason,
     schedule_impact_days |-> change_request.schedule_impact_days,
     reviewer_comments |-> change_request.reviewer_comments,
     occurred_at |-> _utcnow]

record_baseline_change(project_id, baseline, change_request, existing_entries) ==
    [project_id |-> project_id,
     sequence_number |-> Max0({e.sequence_number : e \in existing_entries}) + 1,
     baseline_id |-> baseline.id,
     change_request_id |-> change_request.id,
     changed_by_id |-> change_request.requested_by_id,
     approved_by_id |-> change_request.approver_id,
     change_type |-> change_request.change_type,
     reason |-> change_request.reason,
     schedule_impact_days |-> change_request.schedule_impact_days,
     reviewer_comments |-> change_request.reviewer_comments,
     occurred_at |-> _utcnow]

\* one NotificationLog per role assignment on the list
notify_all_stakeholders(project_id, project_stakeholders_, notification_type, change_request_id, baseline_id, stage_id) ==
    {[project_id |-> project_id,
      stakeholder_id |-> ps.stakeholder_id,
      notification_type |-> notification_type,
      role_at_time_of_notification |-> ps.role,
      change_request_id |-> change_request_id,
      baseline_id |-> baseline_id,
      stage_id |-> stage_id,
      notified_at |-> _utcnow] : ps \in project_stakeholders_}

\* the notification store after _broadcast_and_save
_broadcast_and_save(project_id, notification_type, change_request_id, baseline_id, stage_id) ==
    notifications (+) SetToBag(notify_all_stakeholders(
                                  project_id, _get_project_stakeholders(project_id),
                                  notification_type, change_request_id, baseline_id,
                                  stage_id))

(***************************************************************************)
(* Use cases: what every use case leaves alone                             *)
(***************************************************************************)
Outcome(uc, outcome) == [uc |-> uc, outcome |-> outcome]

StoresButDependencies ==
    <<projects, phases, stages, stage_updates, project_stakeholders, change_requests, baselines,
      baseline_snapshots, audit_trail, notifications, now, in_flight>>

StoresButStakeholders ==
    <<projects, phases, stages, stage_updates, dependencies, change_requests, baselines,
      baseline_snapshots, audit_trail, notifications, now, in_flight>>

(***************************************************************************)
(* Use cases: stakeholders                                                 *)
(***************************************************************************)
AssignStakeholderUseCase(project_id, stakeholder_id, role) ==
    LET existing == _get_project_stakeholders(project_id)
        r == assign_to_project(project_id, stakeholder_id, role, existing)
    IN /\ IF project_id \notin DOMAIN projects \/ stakeholder_id \notin Stakeholders
          THEN /\ result' = Outcome("AssignStakeholder", ERR_NOT_FOUND)
               /\ UNCHANGED project_stakeholders
          ELSE IF r.error # OK
          THEN /\ result' = Outcome("AssignStakeholder", r.error)
               /\ UNCHANGED project_stakeholders
          ELSE /\ project_stakeholders' = project_stakeholders \cup {r.ps}
               /\ result' = Outcome("AssignStakeholder", OK)
       /\ UNCHANGED StoresButStakeholders

RemoveStakeholderUseCase(project_id, stakeholder_id, role) ==
    LET existing == _get_project_stakeholders(project_id)
        r == remove_from_project(stakeholder_id, role, existing)
    IN /\ IF r.error # OK
          THEN /\ result' = Outcome("RemoveStakeholder", ERR_NOT_FOUND)
               /\ UNCHANGED project_stakeholders
          ELSE /\ project_stakeholders' = project_stakeholders \ r.found
               /\ result' = Outcome("RemoveStakeholder", OK)
       /\ UNCHANGED StoresButStakeholders

(***************************************************************************)
(* Use cases: stage dependencies                                           *)
(***************************************************************************)
\* InMemoryStageDependencyRepository.list_for_project
DependenciesOfProject(project_id) == BagOfProject(dependencies, project_id)

\* faulty variant: the new dependency is saved before add_dependency has validated it
AddStageDependencySavesFirst(project_id, predecessor_stage_id, successor_stage_id, acting_user_id) ==
    LET ps_list == _get_project_stakeholders(project_id)
        existing_deps == DependenciesOfProject(project_id)
        r == add_dependency(project_id, predecessor_stage_id, successor_stage_id,
                            existing_deps, ps_list, acting_user_id)
    IN /\ BagCardinality(dependencies) < MaxDeps
       /\ IF project_id \notin DOMAIN projects
          THEN /\ result' = Outcome("AddStageDependency", ERR_NOT_FOUND)
               /\ UNCHANGED dependencies
          ELSE /\ dependencies' = BagAdd(dependencies, r.dep)
               /\ result' = Outcome("AddStageDependency", r.error)
       /\ UNCHANGED StoresButDependencies

AddStageDependencyUseCase(project_id, predecessor_stage_id, successor_stage_id, acting_user_id) ==
    LET ps_list == _get_project_stakeholders(project_id)
        existing_deps == DependenciesOfProject(project_id)
        r == add_dependency(project_id, predecessor_stage_id, successor_stage_id,
                            existing_deps, ps_list, acting_user_id)
    IN /\ BagCardinality(dependencies) < MaxDeps
       /\ IF project_id \notin DOMAIN projects
          THEN /\ result' = Outcome("AddStageDependency", ERR_NOT_FOUND)
               /\ UNCHANGED dependencies
          ELSE IF r.error # OK
          THEN /\ result' = Outcome("AddStageDependency", r.error)
               /\ UNCHANGED dependencies
          ELSE /\ dependencies' = BagAdd(dependencies, r.dep)
               /\ result' = Outcome("AddStageDependency", OK)
       /\ UNCHANGED StoresButDependencies

\* what cmd.dependency_id stands for when no stored dependency has that id
UnknownDependency == StageDependency(UnknownProject, "A", "A")

\* cmd.dependency_id names the stored dependency `dependency`, or no stored
\* dependency at all (UnknownDependency)
RemoveStageDependencyUseCase(project_id, dependency, acting_user_id) ==
    LET all_deps == DependenciesOfProject(project_id)
        ps_list == _get_project_stakeholders(project_id)
    IN /\ IF dependency \notin Elements(all_deps)
          THEN /\ result' = Outcome("RemoveStageDependency", ERR_NOT_FOUND)
               /\ UNCHANGED dependencies
          ELSE IF remove_dependency(dependency, ps_list, acting_user_id).error # OK
          THEN /\ result' = Outcome("RemoveStageDependency", ERR_ROLE)
               /\ UNCHANGED dependencies
          ELSE /\ dependencies' = BagRemove(dependencies, dependency)
               /\ result' = Outcome("RemoveStageDependency", OK)
       /\ UNCHANGED StoresButDependencies

(***************************************************************************)
(* Use cases: change control                                               *)
(***************************************************************************)
StoresButChangeRequests ==
    <<projects, phases, stages, stage_updates, dependencies, project_stakeholders, baselines,
      baseline_snapshots, audit_trail, now, in_flight>>

SubmitChangeRequestUseCase(project_id, requested_by_id, approver_id, change_type, reason, schedule_impact_days) ==
    LET r == submit_change_request(project_id, requested_by_id, approver_id,
                                   change_type, reason, schedule_impact_days)
    IN /\ Len(change_requests) < MaxCR
       /\ IF project_id \notin DOMAIN projects \/ approver_id \notin Stakeholders
          THEN /\ result' = Outcome("SubmitChangeRequest", ERR_NOT_FOUND)
               /\ UNCHANGED <<change_requests, notifications>>
          ELSE IF r.error # OK
          THEN /\ result' = Outcome("SubmitChangeRequest", r.error)
               /\ UNCHANGED <<change_requests, notifications>>
          ELSE /\ change_requests' = Append(change_requests, r.cr)
               /\ notifications' =
                      _broadcast_and_save(project_id, CHANGE_REQUEST_SUBMITTED,
                                          r.cr.id, None, NoneStr)
               /\ result' = Outcome("SubmitChangeRequest", OK)
       /\ UNCHANGED StoresButChangeRequests

ApproveChangeRequestUseCase(cr_id, project_id, reviewer_id, reviewer_comments) ==
    LET ps_list == _get_project_stakeholders(project_id)
        r == approve_change_request(change_requests[cr_id], reviewer_id,
                                    reviewer_comments, ps_list)
    IN /\ IF cr_id \notin DOMAIN change_requests
          THEN /\ result' = Outcome("ApproveChangeRequest", ERR_NOT_FOUND)
               /\ UNCHANGED <<change_requests, notifications>>
          ELSE IF r.error # OK
          THEN /\ result' = Outcome("ApproveChangeRequest", r.error)
               /\ UNCHANGED <<change_requests, notifications>>
          ELSE /\ change_requests' = [change_requests EXCEPT ![cr_id] = r.cr]
               /\ notifications' =
                      _broadcast_and_save(project_id, CHANGE_REQUEST_APPROVED,
                                          r.cr.id, None, NoneStr)
               /\ result' = Outcome("ApproveChangeRequest", OK)
       /\ UNCHANGED StoresButChangeRequests

RejectChangeRequestUseCase(cr_id, project_id, reviewer_id, reviewer_comments) ==
    LET ps_list == _get_project_stakeholders(project_id)
        r == reject_change_request(change_requests[cr_id], reviewer_id,
                                   reviewer_comments, ps_list)
    IN /\ IF cr_id \notin DOMAIN change_requests
          THEN /\ result' = Outcome("RejectChangeRequest", ERR_NOT_FOUND)
               /\ UNCHANGED <<change_requests, notifications>>
          ELSE IF r.error # OK
          THEN /\ result' = Outcome("RejectChangeRequest", r.error)
               /\ UNCHANGED <<change_requests, notifications>>
          ELSE /\ change_requests' = [change_requests EXCEPT ![cr_id] = r.cr]
               /\ notifications' =
                      _broadcast_and_save(project_id, CHANGE_REQUEST_REJECTED,
                                          r.cr.id, None, NoneStr)
               /\ result' = Outcome("RejectChangeRequest", OK)
       /\ UNCHANGED StoresButChangeRequests

(***************************************************************************)
(* Use cases: baselines                                                    *)
(***************************************************************************)
\* InMemoryStageRepository.list_for_project
StagesOfProject(project_id) ==
    {stages[i] : i \in {j \in DOMAIN stages : stages[j].project_id = project_id}}

\* InMemoryBaselineRepository.list_for_project
BaselinesOfProject(project_id) ==
    {baselines[i] : i \in {j \in DOMAIN baselines : baselines[j].project_id = project_id}}

\* InMemoryAuditTrailRepository.list_for_project
AuditEntriesOfProject(project_id) ==
    {e \in audit_trail : e.project_id = project_id}

\* uow.stages.save for each stage handed back
SaveStages(updated_stages) ==
    [i \in DOMAIN stages |->
        IF \E u \in updated_stages : u.id = i
        THEN CHOOSE u \in updated_stages : u.id = i
        ELSE stages[i]]

\* uow.baselines.save for each previous baseline handed back, then for the new one
SaveBaselines(updated_previous, new_baseline) ==
    Append([i \in DOMAIN baselines |->
               IF \E u \in updated_previous : u.id = i
               THEN CHOOSE u \in updated_previous : u.id = i
               ELSE baselines[i]],
           new_baseline)

\* the writes of a baseline use case after the service call has returned r
CommitBaseline(uc, project_id, cr, r, existing_entries, notification_type) ==
    /\ baselines' = SaveBaselines(r.updated_previous, r.baseline)
    /\ baseline_snapshots' = baseline_snapshots \cup r.snapshots
    /\ stages' = SaveStages(r.updated_stages)
    /\ projects' = [projects EXCEPT ![project_id] = r.project]
    /\ audit_trail' = audit_trail \cup
                         {record_baseline_change(project_id, r.baseline, cr,
                                                 existing_entries)}
    /\ notifications' = _broadcast_and_save(project_id, notification_type, cr.id,
                                            r.baseline.id, NoneStr)
    /\ result' = Outcome(uc, OK)

BaselineStores ==
    <<projects, stages, baselines, baseline_snapshots, audit_trail, notifications>>

StoresButBaselines ==
    <<phases, stage_updates, dependencies, project_stakeholders, change_requests, now,
      in_flight>>

SetInitialBaselineUseCase(project_id, change_request_id, acting_user_id) ==
    LET project == projects[project_id]
        cr == change_requests[change_request_id]
        stages_ == StagesOfProject(project_id)
        existing_entries == AuditEntriesOfProject(project_id)
        r == set_initial_baseline(project, stages_, cr, acting_user_id)
    IN /\ Len(baselines) < MaxBaselines
       /\ IF project_id \notin DOMAIN projects
             \/ change_request_id \notin DOMAIN change_requests
          THEN /\ result' = Outcome("SetInitialBaseline", ERR_NOT_FOUND)
               /\ UNCHANGED BaselineStores
          ELSE IF r.error # OK
          THEN /\ result' = Outcome("SetInitialBaseline", r.error)
               /\ UNCHANGED BaselineStores
          ELSE CommitBaseline("SetInitialBaseline", project_id, cr, r,
                              existing_entries, BASELINE_SET)
       /\ UNCHANGED StoresButBaselines

ResetBaselineUseCase(project_id, change_request_id, acting_user_id) ==
    LET project == projects[project_id]
        cr == change_requests[change_request_id]
        stages_ == StagesOfProject(project_id)
        previous_baselines == BaselinesOfProject(project_id)
        ps_list == _get_project_stakeholders(project_id)
        existing_entries == AuditEntriesOfProject(project_id)
        r == reset_baseline(project, stages_, previous_baselines, cr, acting_user_id,
                            ps_list)
    IN /\ Len(baselines) < MaxBaselines
       /\ IF project_id \notin DOMAIN projects
             \/ change_request_id \notin DOMAIN change_requests
          THEN /\ result' = Outcome("ResetBaseline", ERR_NOT_FOUND)
               /\ UNCHANGED BaselineStores
          ELSE IF r.error # OK
          THEN /\ result' = Outcome("ResetBaseline", r.error)
               /\ UNCHANGED BaselineStores
          ELSE CommitBaseline("ResetBaseline", project_id, cr, r, existing_entries,
                              BASELINE_RESET)
       /\ UNCHANGED StoresButBaselines

\* ResetBaselineUseCase run by two workers at once: a worker first reads the
\* project, the change request and the four lists (application.py 1497-1502)
\* and later calls the service and saves (1503-1546).  The lists hold the
\* stored objects themselves, so a worker sees later changes of their fields
\* but not objects saved after it read.
ResetBaselineRead(w, project_id, change_request_id, acting_user_id) ==
    /\ in_flight[w] = NoRead
    /\ Len(baselines) + Cardinality({v \in Workers : in_flight[v] # NoRead})
          < MaxBaselines
    /\ IF project_id \notin DOMAIN projects
          \/ change_request_id \notin DOMAIN change_requests
       THEN /\ result' = Outcome("ResetBaseline", ERR_NOT_FOUND)
            /\ UNCHANGED in_flight
       ELSE /\ in_flight' =
                   [in_flight EXCEPT ![w] =
                       [project_id |-> project_id,
                        change_request_id |-> change_request_id,
                        acting_user_id |-> acting_user_id,
                        stage_ids |-> {i \in DOMAIN stages :
                                          stages[i].project_id = project_id},
                        baseline_ids |-> {n \in DOMAIN baselines :
                                             baselines[n].project_id = project_id},
                        ps_list |-> _get_project_stakeholders(project_id),
                        existing_entries |-> AuditEntriesOfProject(project_id)]]
            /\ UNCHANGED result
    /\ UNCHANGED BaselineStores
    /\ UNCHANGED <<phases, stage_updates, dependencies, project_stakeholders,
                   change_requests, now>>

ResetBaselineFinish(w, previous_baselines) ==
    LET read == in_flight[w]
        r == reset_baseline(projects[read.project_id],
                            {stages[i] : i \in read.stage_ids},
                            previous_baselines,
                            change_requests[read.change_request_id],
                            read.acting_user_id, read.ps_list)
    IN /\ read # NoRead
       /\ IF r.error # OK
          THEN /\ result' = Outcome("ResetBaseline", r.error)
               /\ UNCHANGED BaselineStores
          ELSE CommitBaseline("ResetBaseline", read.project_id,
                              change_requests[read.change_request_id], r,
                              read.existing_entries, BASELINE_RESET)
       /\ in_flight' = [in_flight EXCEPT ![w] = NoRead]
       /\ UNCHANGED <<phases, stage_updates, dependencies, project_stakeholders,
                      change_requests, now>>

\* faulty variant: the baselines of the project are looked up again when the
\* worker saves
ResetBaselineWriteRereading(w) ==
    ResetBaselineFinish(w, BaselinesOfProject(in_flight[w].project_id))

ResetBaselineWrite(w) ==
    ResetBaselineFinish(w, {baselines[n] : n \in in_flight[w].baseline_ids})

(***************************************************************************)
(* Use cases: projects, phases and stages                                  *)
(***************************************************************************)
\* what the phase and stage use cases never write
StoresButStages ==
    <<dependencies, project_stakeholders, change_requests, baselines,
      baseline_snapshots, audit_trail, now, in_flight>>

\* what the phase and stage use cases may write
StageStores == <<projects, phases, stages, stage_updates, notifications>>

\* InMemoryStageRepository.list_for_project and list_for_phase on a stage store
list_for_project(stages_, project_id) ==
    {stages_[i] : i \in {j \in DOMAIN stages_ : stages_[j].project_id = project_id}}

list_for_phase(stages_, phase_id) ==
    {stages_[i] : i \in {j \in DOMAIN stages_ : stages_[j].phase_id = phase_id}}

\* uow.stages.save of one stage
SaveStage(stage) ==
    [i \in DOMAIN stages \cup {stage.id} |-> IF i = stage.id THEN stage ELSE stages[i]]

\* the project store after _refresh_project_progress, given the stage store
_refresh_project_progress(stages_, project_id) ==
    [projects EXCEPT ![project_id] =
        recalculate_progress(projects[project_id], list_for_project(stages_, project_id))]

\* the phase store after the phase summary has been refreshed, given the stage store
RefreshPhase(stages_, phase_id) ==
    [phases EXCEPT ![phase_id] =
        recalculate_phase_progress(phases[phase_id], list_for_phase(stages_, phase_id))]

\* the import of _require_role from a module named services fails: the
\* repository has no such module, and ImportError is not caught
ERR_IMPORT == "ModuleNotFoundError"

UpdateProjectUseCase(project_id, planned_start_date, planned_end_date, acting_user_id) ==
    /\ IF project_id \notin DOMAIN projects
       THEN result' = Outcome("UpdateProject", ERR_NOT_FOUND)
       ELSE result' = Outcome("UpdateProject", ERR_IMPORT)
    /\ UNCHANGED StageStores
    /\ UNCHANGED StoresButStages

\* faulty variant: the snapshots of the deleted stages are deleted with them
RemovePhaseWithSnapshots(phase_id, project_id, acting_user_id) ==
    LET ps_list == _get_project_stakeholders(project_id)
        stages_ == list_for_phase(stages, phase_id)
        r == remove_phase(phases[phase_id], stages_, ps_list, acting_user_id)
    IN /\ IF phase_id \notin DOMAIN phases
          THEN /\ result' = Outcome("RemovePhase", ERR_NOT_FOUND)
               /\ UNCHANGED <<phases, stages, baseline_snapshots>>
          ELSE IF r.error # OK
          THEN /\ result' = Outcome("RemovePhase", r.error)
               /\ UNCHANGED <<phases, stages, baseline_snapshots>>
          ELSE /\ stages' = [i \in DOMAIN stages \ {s.id : s \in stages_} |-> stages[i]]
               /\ phases' = [i \in DOMAIN phases \ {phase_id} |-> phases[i]]
               /\ baseline_snapshots' =
                      {s \in baseline_snapshots : s.stage_id \in DOMAIN stages'}
               /\ result' = Outcome("RemovePhase", OK)
       /\ UNCHANGED <<projects, stage_updates, notifications>>
       /\ UNCHANGED <<dependencies, project_stakeholders, change_requests, baselines,
                      audit_trail, now, in_flight>>

RemovePhaseUseCase(phase_id, project_id, acting_user_id) ==
    LET ps_list == _get_project_stakeholders(project_id)
        stages_ == list_for_phase(stages, phase_id)
        r == remove_phase(phases[phase_id], stages_, ps_list, acting_user_id)
    IN /\ IF phase_id \notin DOMAIN phases
          THEN /\ result' = Outcome("RemovePhase", ERR_NOT_FOUND)
               /\ UNCHANGED <<phases, stages>>
          ELSE IF r.error # OK
          THEN /\ result' = Outcome("RemovePhase", r.error)
               /\ UNCHANGED <<phases, stages>>
          ELSE /\ stages' = [i \in DOMAIN stages \ {s.id : s \in stages_} |-> stages[i]]
               /\ phases' = [i \in DOMAIN phases \ {phase_id} |-> phases[i]]
               /\ result' = Outcome("RemovePhase", OK)
       /\ UNCHANGED <<projects, stage_updates, notifications>>
       /\ UNCHANGED StoresButStages

\* the ids a new stage may get: uuid4 never hands out an id in use
FreshStageIds ==
    {i \in NewStageIds :
        /\ i \notin DOMAIN stages
        /\ \A s \in baseline_snapshots : s.stage_id # i
        /\ \A n \in DOMAIN stage_updates : stage_updates[n].stage_id # i}

AddStageUseCase(project_id, phase_id, planned_start_date, planned_end_date, acting_user_id) ==
    LET id == CHOOSE i \in FreshStageIds : TRUE
        ps_list == _get_project_stakeholders(project_id)
        r == add_stage(id, phase_id, project_id, planned_start_date, planned_end_date,
                       ps_list, acting_user_id)
        saved == SaveStage(r.stage)
    IN /\ FreshStageIds # {}
       /\ IF project_id \notin DOMAIN projects \/ phase_id \notin DOMAIN phases
          THEN /\ result' = Outcome("AddStage", ERR_NOT_FOUND)
               /\ UNCHANGED <<projects, phases, stages>>
          ELSE IF r.error # OK
          THEN /\ result' = Outcome("AddStage", r.error)
               /\ UNCHANGED <<projects, phases, stages>>
          ELSE /\ stages' = saved
               /\ phases' = RefreshPhase(saved, phase_id)
               /\ projects' = _refresh_project_progress(saved, project_id)
               /\ result' = Outcome("AddStage", OK)
       /\ UNCHANGED <<stage_updates, notifications>>
       /\ UNCHANGED StoresButStages

\* neither the phase nor the project summary is refreshed
UpdateStageScheduleUseCase(stage_id, project_id, planned_start_date, planned_end_date, acting_user_id) ==
    LET ps_list == _get_project_stakeholders(project_id)
        r == update_stage_schedule(stages[stage_id], planned_start_date,
                                   planned_end_date, ps_list, acting_user_id)
    IN /\ IF stage_id \notin DOMAIN stages
          THEN /\ result' = Outcome("UpdateStageSchedule", ERR_NOT_FOUND)
               /\ UNCHANGED stages
          ELSE IF r.error # OK
          THEN /\ result' = Outcome("UpdateStageSchedule", r.error)
               /\ UNCHANGED stages
          ELSE /\ stages' = SaveStage(compute_deviation(r.stage))
               /\ result' = Outcome("UpdateStageSchedule", OK)
       /\ UNCHANGED <<projects, phases, stage_updates, notifications>>
       /\ UNCHANGED StoresButStages

\* the project named by the command is looked up after the stage, the status
\* update, the notifications and the phase have been written
UpdateStageProgressUseCase(stage_id, project_id, new_status, new_progress_pct, actual_start_date, actual_end_date, comments, acting_user_id) ==
    LET r == apply_progress_update(stages[stage_id], new_status, new_progress_pct,
                                   actual_start_date, actual_end_date, comments,
                                   acting_user_id)
        stage == compute_deviation(r.stage)
        saved == SaveStage(stage)
    IN /\ Len(stage_updates) < MaxUpdates
       /\ IF stage_id \notin DOMAIN stages
          THEN /\ result' = Outcome("UpdateStageProgress", ERR_NOT_FOUND)
               /\ UNCHANGED StageStores
          ELSE IF r.error # OK
          THEN /\ result' = Outcome("UpdateStageProgress", r.error)
               /\ UNCHANGED StageStores
          ELSE /\ stages' = saved
               /\ stage_updates' = Append(stage_updates, r.update)
               /\ notifications' =
                      IF new_status = BLOCKED
                      THEN _broadcast_and_save(project_id, STAGE_BLOCKED, None, None,
                                               stage_id)
                      ELSE notifications
               /\ phases' = IF stage.phase_id \in DOMAIN phases
                            THEN RefreshPhase(saved, stage.phase_id)
                            ELSE phases
               /\ IF project_id \notin DOMAIN projects
                  THEN /\ result' = Outcome("UpdateStageProgress", ERR_NOT_FOUND)
                       /\ UNCHANGED projects
                  ELSE /\ projects' = _refresh_project_progress(saved, project_id)
                       /\ result' = Outcome("UpdateStageProgress", OK)
       /\ UNCHANGED StoresButStages

\* compute_deviations_for_project writes the deviation of every stage of the
\* project into the stored stage
\* StageService.deviation_summary: the number of stages in each deviation
\* state; stages without a deviation status are left out.
deviation_summary(stages_) ==
    [status \in {ON_BASELINE, AHEAD, DELAYED} |->
        Cardinality({stage \in stages_ : stage.deviation_status = status})]

\* faulty variant: the report is built from the oldest baseline of the project
FirstBaseline(baselines_) ==
    LET all == {n \in DOMAIN baselines : baselines[n] \in baselines_}
    IN IF all = {} THEN None
       ELSE CHOOSE n \in all : \A k \in all : n <= k

\* the first active baseline in the order the baselines were stored, or None
FirstActiveBaseline(baselines_) ==
    LET active == {n \in DOMAIN baselines : baselines[n] \in baselines_
                                            /\ baselines[n].is_active}
    IN IF active = {} THEN None
       ELSE CHOOSE n \in active : \A k \in active : n <= k

\* one row of the report: the snapshot joined with the live stage of its id
BaselineSnapshotDTO(snap, stages_) ==
    LET live == {stage \in stages_ : stage.id = snap.stage_id}
        stage == CHOOSE x \in live : TRUE
        dev_days == stage.planned_end_date - snap.baseline_end_date
    IN IF live # {} /\ stage.planned_end_date # None /\ snap.baseline_end_date # None
       THEN [stage_id |-> snap.stage_id,
             baseline_end_date |-> snap.baseline_end_date,
             deviation_days |-> dev_days,
             deviation_status |-> IF dev_days > 0 THEN DELAYED
                                  ELSE IF dev_days < 0 THEN AHEAD
                                  ELSE ON_BASELINE]
       ELSE [stage_id |-> snap.stage_id,
             baseline_end_date |-> snap.baseline_end_date,
             deviation_days |-> None,
             deviation_status |-> NoneStr]

\* the rows of the report: one per snapshot of the active baseline
stage_snapshots(active_baseline, stages_) ==
    IF active_baseline = None
    THEN {}
    ELSE {BaselineSnapshotDTO(snap, stages_) :
             snap \in {x \in baseline_snapshots : x.baseline_id = active_baseline}}

\* what GetBaselineReportUseCase hands back for a stored project
BaselineReportDTO(project_id) ==
    LET stages_ == {compute_deviation(stage) : stage \in StagesOfProject(project_id)}
        active_baseline == FirstActiveBaseline(BaselinesOfProject(project_id))
    IN [project_id |-> project_id,
        active_baseline_version |->
            IF active_baseline = None THEN None
            ELSE baselines[active_baseline].version_number,
        stage_snapshots |-> stage_snapshots(active_baseline, stages_),
        deviation_summary |-> deviation_summary(stages_)]

GetBaselineReportUseCase(project_id) ==
    /\ IF project_id \notin DOMAIN projects
       THEN /\ result' = Outcome("GetBaselineReport", ERR_NOT_FOUND)
            /\ UNCHANGED stages
       ELSE /\ stages' = [i \in DOMAIN stages |->
                             IF stages[i].project_id = project_id
                             THEN compute_deviation(stages[i])
                             ELSE stages[i]]
            /\ result' = Outcome("GetBaselineReport", OK)
    /\ UNCHANGED <<projects, phases, stage_updates, notifications>>
    /\ UNCHANGED StoresButStages

(***************************************************************************)
(* The clock                                                               *)
(***************************************************************************)
\* time passes between two requests
Tick ==
    /\ now < MaxNow
    /\ now' = now + 1
    /\ result' = Outcome("Tick", OK)
    /\ UNCHANGED <<projects, phases, stages, stage_updates, dependencies,
                   project_stakeholders, change_requests, baselines, baseline_snapshots, audit_trail,
                   notifications, in_flight>>

(***************************************************************************)
(* Initial state: the projects exist without a baseline, the stages are as *)
(* add_stage created them, and a few roles are assigned                    *)
(***************************************************************************)
\* the stages the database starts with: A and B in project P1, C in project P2
InitialStages ==
    [i \in StageIds |->
        CASE i = "A" -> Stage("A", "phase1", "P1", 1, 5)
          [] i = "B" -> Stage("B", "phase1", "P1", None, 7)
          [] i = "C" -> Stage("C", "phase2", "P2", 2, 4)]

\* the phases the database starts with: phase1 in project P1, phase2 in P2
InitialPhase(id) == Phase(id, IF id = "phase1" THEN "P1" ELSE "P2")

\* the role assignments the database starts with: u1 represents the owner of
\* project P1 and is a team member of project P2; u2 holds no role
InitialAssignments ==
    {ProjectStakeholder("P1", "u1", OWNER_REPRESENTATIVE),
     ProjectStakeholder("P2", "u1", TEAM_MEMBER)}

Init ==
    /\ now = 0
    /\ stages = InitialStages
    /\ phases = [i \in PhaseIds |-> recalculate_phase_progress(InitialPhase(i), list_for_phase(InitialStages, i))]
    /\ projects = [p \in Projects |-> recalculate_progress(Project(p), list_for_project(InitialStages, p))]
    /\ stage_updates = <<>>
    /\ dependencies = EmptyBag
    /\ project_stakeholders = InitialAssignments
    /\ change_requests = <<>>
    /\ baselines = <<>>
    /\ baseline_snapshots = {}
    /\ audit_trail = {}
    /\ notifications = EmptyBag
    /\ in_flight = [w \in Workers |-> NoRead]
    /\ result = Outcome("none", OK)

(***************************************************************************)
(* The dependency graph manager, driven by a lead project manager whose    *)
(* role may be assigned and withdrawn                                      *)
(***************************************************************************)
\* the acting users of the dependency commands; the role is given to and
\* taken from them while the graph is built
DepActors == {"u1"}

NextDep ==
    \/ \E p \in ProjectIds, a \in StageIds, b \in StageIds, u \in DepActors :
           AddStageDependencyUseCase(p, a, b, u)
    \/ \E p \in Projects, d \in Elements(dependencies) \cup {UnknownDependency},
          u \in DepActors :
           RemoveStageDependencyUseCase(p, d, u)
    \/ \E p \in Projects, s \in DepActors :
           AssignStakeholderUseCase(p, s, LEAD_PROJECT_MANAGER)
    \/ \E p \in Projects, s \in DepActors :
           RemoveStakeholderUseCase(p, s, LEAD_PROJECT_MANAGER)

SpecDep == Init /\ [][NextDep]_vars

(***************************************************************************)
(* The change request workflow: requests naming u1 as approver are         *)
(* submitted for project P1 and reviewed by either stakeholder while time  *)
(* passes; an approval is asked for with the role list of either project   *)
(***************************************************************************)
\* the texts offered as reason and as reviewer comments
ReasonInputs == {<<" ">>, <<"r">>}
CommentInputs == {<<" ", "\t">>, <<"o", "k">>}

ChangeRequestIds == 1..MaxCR

NextCR ==
    \/ \E p \in {"P1", UnknownProject}, t \in {DELAY, SCOPE_CHANGE},
          r \in ReasonInputs :
           SubmitChangeRequestUseCase(p, "u2", "u1", t, r, 3)
    \/ \E id \in ChangeRequestIds, p \in Projects, u \in Stakeholders,
          c \in CommentInputs :
           ApproveChangeRequestUseCase(id, p, u, c)
    \/ \E id \in ChangeRequestIds, u \in Stakeholders, c \in CommentInputs :
           RejectChangeRequestUseCase(id, "P1", u, c)
    \/ Tick

SpecCR == Init /\ [][NextCR]_vars

(***************************************************************************)
(* Baseline versioning: change requests of project P1 are submitted,       *)
(* reviewed by their approver and used to set and reset the baselines of   *)
(* both projects                                                           *)
(***************************************************************************)
Next ==
    \/ \E t \in {INITIAL_BASELINE, DELAY, SCOPE_CHANGE} :
           SubmitChangeRequestUseCase("P1", "u2", "u1", t, <<"r">>, -2)
    \/ \E id \in ChangeRequestIds :
           ApproveChangeRequestUseCase(id, "P1", "u1", <<"o", "k">>)
    \/ \E id \in ChangeRequestIds :
           RejectChangeRequestUseCase(id, "P1", "u1", <<"o", "k">>)
    \/ \E p \in ProjectIds, id \in ChangeRequestIds :
           SetInitialBaselineUseCase(p, id, "u2")
    \/ \E p \in ProjectIds, id \in ChangeRequestIds :
           ResetBaselineUseCase(p, id, "u2")

Spec == Init /\ [][Next]_vars

(***************************************************************************)
(* Baselines under an owner representative who leaves: u1 loses the role   *)
(* on project P1 at some moment while the requests u1 approves for P1 are  *)
(* used to set and reset the baseline of P1                                *)
(***************************************************************************)
NextOwner ==
    \/ \E t \in {INITIAL_BASELINE, SCOPE_CHANGE} :
           SubmitChangeRequestUseCase("P1", "u2", "u1", t, <<"r">>, -2)
    \/ \E id \in ChangeRequestIds :
           ApproveChangeRequestUseCase(id, "P1", "u1", <<"o", "k">>)
    \/ RemoveStakeholderUseCase("P1", "u1", OWNER_REPRESENTATIVE)
    \/ \E id \in ChangeRequestIds : SetInitialBaselineUseCase("P1", id, "u2")
    \/ \E id \in ChangeRequestIds : ResetBaselineUseCase("P1", id, "u2")

SpecOwner == Init /\ [][NextOwner]_vars

(***************************************************************************)
(* Stage tracking: u2, lead project manager of P1, adds, reschedules and   *)
(* reports progress on the stages of P1 and removes the phase              *)
(***************************************************************************)
\* as Init, after AssignStakeholderUseCase has made u2 lead project manager of P1
InitStage ==
    /\ now = 0
    /\ stages = InitialStages
    /\ phases = [i \in PhaseIds |-> recalculate_phase_progress(InitialPhase(i), list_for_phase(InitialStages, i))]
    /\ projects = [p \in Projects |-> recalculate_progress(Project(p), list_for_project(InitialStages, p))]
    /\ stage_updates = <<>>
    /\ dependencies = EmptyBag
    /\ project_stakeholders =
           InitialAssignments \cup {ProjectStakeholder("P1", "u2", LEAD_PROJECT_MANAGER)}
    /\ change_requests = <<>>
    /\ baselines = <<>>
    /\ baseline_snapshots = {}
    /\ audit_trail = {}
    /\ notifications = EmptyBag
    /\ in_flight = [w \in Workers |-> NoRead]
    /\ result = Outcome("none", OK)

\* the planned dates of the schedule commands: a later window, an open
\* start, and an end before the start
ScheduleInputs == {<<2, 9>>, <<None, 8>>, <<6, 3>>}

\* the progress commands: work started, work finished, work blocked, and a
\* percentage out of range
ProgressInputs ==
    {[new_status |-> IN_PROGRESS, new_progress_pct |-> 50,
      actual_start_date |-> 1, actual_end_date |-> None, comments |-> <<"c">>],
     [new_status |-> COMPLETED, new_progress_pct |-> 100,
      actual_start_date |-> 1, actual_end_date |-> 4, comments |-> <<"c">>],
     [new_status |-> BLOCKED, new_progress_pct |-> 50,
      actual_start_date |-> None, actual_end_date |-> None, comments |-> <<"c">>],
     [new_status |-> IN_PROGRESS, new_progress_pct |-> 150,
      actual_start_date |-> None, actual_end_date |-> None, comments |-> <<"c">>]}

NextStage ==
    \/ \E d \in ScheduleInputs :
           AddStageUseCase("P1", "phase1", d[1], d[2], "u2")
    \/ \E i \in {"A", "B"}, d \in ScheduleInputs :
           UpdateStageScheduleUseCase(i, "P1", d[1], d[2], "u2")
    \/ \E i \in {"A", UnknownStage}, p \in {"P1", UnknownProject}, c \in ProgressInputs :
           UpdateStageProgressUseCase(i, p, c.new_status, c.new_progress_pct,
                                      c.actual_start_date, c.actual_end_date,
                                      c.comments, "u2")
    \/ \E i \in {"phase1", UnknownPhase} : RemovePhaseUseCase(i, "P1", "u2")
    \/ \E p \in {"P1", UnknownProject} : UpdateProjectUseCase(p, 6, 3, "u2")

SpecStage == InitStage /\ [][NextStage]_vars

(***************************************************************************)
(* Stages under a baseline: the baseline of P1 is set and reset from the   *)
(* requests u1 approves while u2 adds, reschedules and reports progress on *)
(* its stages, removes the phase and asks for the baseline report          *)
(***************************************************************************)
NextSnap ==
    \/ SubmitChangeRequestUseCase("P1", "u2", "u1", INITIAL_BASELINE, <<"r">>, 0)
    \/ ApproveChangeRequestUseCase(1, "P1", "u1", <<"o", "k">>)
    \/ RejectChangeRequestUseCase(2, "P1", "u1", <<"o", "k">>)
    \/ SetInitialBaselineUseCase("P1", 1, "u2")
    \/ ResetBaselineUseCase("P1", 1, "u2")
    \/ AddStageUseCase("P1", "phase1", 2, 9, "u2")
    \/ UpdateStageScheduleUseCase("A", "P1", 2, 9, "u2")
    \/ UpdateStageProgressUseCase("A", "P1", IN_PROGRESS, 50, 1, None, <<"c">>, "u2")
    \/ RemovePhaseUseCase("phase1", "P1", "u2")
    \/ GetBaselineReportUseCase("P1")

SpecSnap == InitStage /\ [][NextSnap]_vars

(***************************************************************************)
(* Progress tracking: u2 adds a stage to P1, reports progress on stages A  *)
(* and D with commands the service accepts and commands it refuses, and    *)
(* removes the phase                                                       *)
(***************************************************************************)
\* work started, work finished, work blocked; then a percentage above 100, a
\* percentage below 0, an end without a start, and a completion without an end
ProgressCommands ==
    {[new_status |-> IN_PROGRESS, new_progress_pct |-> 50,
      actual_start_date |-> 1, actual_end_date |-> None, comments |-> <<"c">>],
     [new_status |-> COMPLETED, new_progress_pct |-> 100,
      actual_start_date |-> 1, actual_end_date |-> 4, comments |-> <<"c">>],
     [new_status |-> BLOCKED, new_progress_pct |-> 50,
      actual_start_date |-> None, actual_end_date |-> None, comments |-> <<"b">>],
     [new_status |-> IN_PROGRESS, new_progress_pct |-> 101,
      actual_start_date |-> 1, actual_end_date |-> None, comments |-> <<"c">>],
     [new_status |-> IN_PROGRESS, new_progress_pct |-> -1,
      actual_start_date |-> 1, actual_end_date |-> None, comments |-> <<"c">>],
     [new_status |-> IN_PROGRESS, new_progress_pct |-> 50,
      actual_start_date |-> None, actual_end_date |-> 4, comments |-> <<"c">>],
     [new_status |-> COMPLETED, new_progress_pct |-> 100,
      actual_start_date |-> 1, actual_end_date |-> None, comments |-> <<"c">>]}

NextProgress ==
    \/ AddStageUseCase("P1", "phase1", 2, 9, "u2")
    \/ \E i \in {"A", "D"}, c \in ProgressCommands :
           UpdateStageProgressUseCase(i, "P1", c.new_status, c.new_progress_pct,
                                      c.actual_start_date, c.actual_end_date,
                                      c.comments, "u2")
    \/ RemovePhaseUseCase("phase1", "P1", "u2")

SpecProgress == InitStage /\ [][NextProgress]_vars

\* Schedules of stage A against its baseline: the initial baseline is struck
\* from the planned end date 5 and the planned end date then moves over
\* every date up to MaxDate, or is cleared.
MaxDate == 14
NextDeviation ==
    \/ SubmitChangeRequestUseCase("P1", "u2", "u1", INITIAL_BASELINE, <<"r">>, 0)
    \/ ApproveChangeRequestUseCase(1, "P1", "u1", <<"o", "k">>)
    \/ SetInitialBaselineUseCase("P1", 1, "u2")
    \/ \E e \in {None} \cup 1..MaxDate :
           UpdateStageScheduleUseCase("A", "P1", 1, e, "u2")
    \/ GetBaselineReportUseCase("P1")
SpecDeviation == InitStage /\ [][NextDeviation]_vars

\* Two workers resetting the baseline of P1 at the same time.
NextRace ==
    \/ SubmitChangeRequestUseCase("P1", "u2", "u1", INITIAL_BASELINE, <<"r">>, 0)
    \/ ApproveChangeRequestUseCase(1, "P1", "u1", <<"o", "k">>)
    \/ SetInitialBaselineUseCase("P1", 1, "u2")
    \/ \E w \in Workers, p \in {"P1", UnknownProject} :
           ResetBaselineRead(w, p, 1, "u2")
    \/ \E w \in Workers : ResetBaselineWrite(w)
SpecRace == InitStage /\ [][NextRace]_vars

\* Progress updates that name a project in the command: the stage's own
\* project or the other one.
NextBlocked ==
    \/ \E i \in {"A", "C"}, p \in Projects, c \in ProgressCommands :
           UpdateStageProgressUseCase(i, p, c.new_status, c.new_progress_pct,
                                      c.actual_start_date, c.actual_end_date,
                                      c.comments, "u2")
    \/ AddStageUseCase("P1", "phase1", 2, 9, "u2")
SpecBlocked == InitStage /\ [][NextBlocked]_vars

\* Submissions with empty, blank and proper reasons, by either stakeholder,
\* with negative, zero and positive declared impact.
SubmitCommands ==
    {[requested_by_id |-> "u2", approver_id |-> "u1", change_type |-> DELAY,
      reason |-> <<"r">>, schedule_impact_days |-> -2],
     [requested_by_id |-> "u1", approver_id |-> "u2", change_type |-> SCOPE_CHANGE,
      reason |-> <<" ", "r", " ">>, schedule_impact_days |-> 3],
     [requested_by_id |-> "u2", approver_id |-> "u1", change_type |-> INITIAL_BASELINE,
      reason |-> <<>>, schedule_impact_days |-> 0],
     [requested_by_id |-> "u2", approver_id |-> "u1", change_type |-> DELAY,
      reason |-> <<" ", "\t", "\n">>, schedule_impact_days |-> 3]}
NextSubmit ==
    \/ \E p \in {"P1", UnknownProject}, c \in SubmitCommands :
           SubmitChangeRequestUseCase(p, c.requested_by_id, c.approver_id,
                                      c.change_type, c.reason, c.schedule_impact_days)
    \/ \E id \in ChangeRequestIds, u \in Stakeholders :
           ApproveChangeRequestUseCase(id, "P1", u, <<"o", "k">>)
    \/ \E id \in ChangeRequestIds, u \in Stakeholders :
           RejectChangeRequestUseCase(id, "P1", u, <<"n", "o">>)
SpecSubmit == Init /\ [][NextSubmit]_vars

\* Commands that name a project next to the entity they act on: schedule
\* updates of stages A (of P1) and C (of P2) and reviews of requests of
\* either project, each under either project id.  u2 leads P1 only and u1
\* represents the owner of P1 only.
NextRoles ==
    \/ \E i \in {"A", "C"}, p \in Projects, u \in Stakeholders :
           UpdateStageScheduleUseCase(i, p, 2, 9, u)
    \/ \E p \in Projects, t \in {DELAY, SCOPE_CHANGE} :
           SubmitChangeRequestUseCase(p, "u2", "u1", t, <<"r">>, 3)
    \/ \E id \in ChangeRequestIds, p \in Projects :
           ApproveChangeRequestUseCase(id, p, "u1", <<"o", "k">>)
SpecRoles == InitStage /\ [][NextRoles]_vars

(***************************************************************************)
(* Graph notions the dependency claims are stated in, defined on the edge  *)
(* set alone                                                               *)
(***************************************************************************)
\* the ordered pairs (predecessor, successor) stored for a project
EdgesOf(project_id) ==
    {<<d.predecessor_stage_id, d.successor_stage_id>> :
        d \in Elements(DependenciesOfProject(project_id))}

\* the heads of the edges leaving a node of S
Heads(E, S) == {e[2] : e \in {x \in E : x[1] \in S}}

RECURSIVE Closure(_, _)
Closure(E, S) ==
    LET T == S \cup Heads(E, S) IN IF T = S THEN S ELSE Closure(E, T)

\* a directed path of one or more edges of E leads from a to b
PathExists(E, a, b) == b \in Closure(E, Heads(E, {a}))

HasCycle(E) == \E n \in StageIds : PathExists(E, n, n)

\* the stakeholder holds the role on the project
HoldsRole(project_id, stakeholder_id, role) ==
    ProjectStakeholder(project_id, stakeholder_id, role) \in project_stakeholders

(***************************************************************************)
(* Claims: dependency graph                                                *)
(***************************************************************************)
\* C1: whatever add_dependency and remove_dependency calls were made, the
\* edge set stored for a project contains no directed cycle.
C1_EdgeSetAcyclic == \A p \in Projects : ~ HasCycle(EdgesOf(p))

\* a dependency was removed from a project that keeps a chain A -> B -> C
C1_Witness ==
    /\ result = Outcome("RemoveStageDependency", OK)
    /\ {<<"A", "B">>, <<"B", "C">>} \subseteq EdgesOf("P1")

(***************************************************************************)
(* Notions the baseline and change request claims are stated in            *)
(***************************************************************************)
ActiveBaselines(project_id) == {b \in BaselinesOfProject(project_id) : b.is_active}

BaselineUseCases == {"SetInitialBaseline", "ResetBaseline"}

ReviewUseCases == {"ApproveChangeRequest", "RejectChangeRequest"}

\* C2: after one set_initial_baseline and N reset_baseline calls that succeeded
\* on a project, the project has exactly N+1 baselines, their versions are
\* exactly 1..N+1, and the one with the highest version is the only active one:
\* every successful call adds one baseline, one version above the count so far
\* (the first being the set_initial_baseline), and no other step adds any.
C2_VersionsOneToCount ==
    /\ [](\A p \in Projects :
             LET n == Cardinality(BaselinesOfProject(p))
             IN /\ {b.version_number : b \in BaselinesOfProject(p)} = 1..n
                /\ \A b \in BaselinesOfProject(p) :
                      b.is_active <=> b.version_number = n)
    /\ [][IF result'.uc \in BaselineUseCases /\ result'.outcome = OK
          THEN /\ Len(baselines') = Len(baselines) + 1
               /\ \E p \in Projects :
                     LET n == Cardinality(BaselinesOfProject(p))
                     IN /\ baselines'[Len(baselines')].project_id = p
                        /\ baselines'[Len(baselines')].version_number = n + 1
                        /\ result'.uc = "SetInitialBaseline" <=> n = 0
                        /\ Cardinality(BaselinesOfProject(p)') = n + 1
          ELSE Len(baselines') = Len(baselines)
         ]_vars

\* project P1 has had its baseline set and then reset twice
C2_Witness ==
    /\ result = Outcome("ResetBaseline", OK)
    /\ Cardinality(BaselinesOfProject("P1")) = 3

\* C3: a project for which no baseline was ever set has no active baseline,
\* and every other project has exactly one.
C3_OneActiveBaseline ==
    \A p \in Projects :
        IF BaselinesOfProject(p) = {}
        THEN ActiveBaselines(p) = {}
        ELSE Cardinality(ActiveBaselines(p)) = 1

\* one project has had its baseline reset while the other never had one
C3_Witness ==
    /\ result = Outcome("ResetBaseline", OK)
    /\ \E p \in Projects, q \in Projects :
          /\ Cardinality(BaselinesOfProject(p)) >= 2
          /\ BaselinesOfProject(q) = {}

C5_ReviewedOnce ==
    /\ [](\A id \in DOMAIN change_requests :
             change_requests[id].status # PENDING
             => \A p \in Projects, u \in Stakeholders, c \in CommentInputs :
                   LET ps_list == _get_project_stakeholders(p)
                       approved == approve_change_request(change_requests[id], u, c, ps_list)
                       rejected == reject_change_request(change_requests[id], u, c, ps_list)
                   IN /\ approved.error = ERR_NOT_PENDING_APPROVE
                      /\ approved.cr = change_requests[id]
                      /\ rejected.error = ERR_NOT_PENDING_REJECT
                      /\ rejected.cr = change_requests[id])
    /\ [][\A id \in DOMAIN change_requests :
             change_requests[id].status # PENDING
             => /\ id \in DOMAIN change_requests'
                /\ change_requests'[id] = change_requests[id]
         ]_vars

\* a request reviewed at an earlier time was offered for approval again
C5_Witness ==
    /\ result = Outcome("ApproveChangeRequest", ERR_NOT_PENDING_APPROVE)
    /\ \E id \in DOMAIN change_requests :
          /\ change_requests[id].status = REJECTED
          /\ change_requests[id].reviewed_at < now
    /\ \A id \in DOMAIN change_requests : change_requests[id].status # PENDING

\* C6: approve_change_request on a pending scope_change request by its
\* designated approver with non-blank comments fails for the missing role when
\* the approver is no Owner Representative on the stakeholder list supplied,
\* and leaves the request as it was.
C6_ScopeChangeNeedsOwner ==
    [][result'.uc = "ApproveChangeRequest"
       => \A id \in DOMAIN change_requests, p \in Projects, u \in Stakeholders,
             c \in CommentInputs :
            ( /\ change_requests[id].status = PENDING
              /\ change_requests[id].change_type = SCOPE_CHANGE
              /\ u = change_requests[id].approver_id
              /\ ~ IsBlank(c)
              /\ ~ HoldsRole(p, u, OWNER_REPRESENTATIVE)
              /\ ApproveChangeRequestUseCase(id, p, u, c) )
            => /\ result'.outcome = ERR_ROLE
               /\ change_requests' = change_requests
               /\ change_requests'[id].status = PENDING
      ]_vars

\* the approval of a pending scope change was refused for the missing role
C6_Witness ==
    /\ result = Outcome("ApproveChangeRequest", ERR_ROLE)
    /\ \E id \in DOMAIN change_requests :
          /\ change_requests[id].status = PENDING
          /\ change_requests[id].change_type = SCOPE_CHANGE

\* C7: a change request leaves pending only in an approve or reject that
\* succeeded, called by its designated approver with comments that are not
\* blank; a call by somebody else, or with blank comments, fails and leaves the
\* request pending.
C7_OnlyApproverWithComments ==
    /\ [](\A id \in DOMAIN change_requests :
             change_requests[id].status = PENDING
             => \A p \in Projects, u \in Stakeholders, c \in CommentInputs :
                   LET ps_list == _get_project_stakeholders(p)
                       approved == approve_change_request(change_requests[id], u, c, ps_list)
                       rejected == reject_change_request(change_requests[id], u, c, ps_list)
                   IN IF u = change_requests[id].approver_id /\ ~ IsBlank(c)
                      THEN /\ approved.error \in {OK, ERR_ROLE}
                           /\ rejected.error = OK
                      ELSE /\ approved.error \in {ERR_APPROVER_APPROVE, ERR_COMMENTS_APPROVE}
                           /\ rejected.error \in {ERR_APPROVER_REJECT, ERR_COMMENTS_REJECT}
                           /\ approved.cr = change_requests[id]
                           /\ rejected.cr = change_requests[id])
    /\ [][\A id \in DOMAIN change_requests :
             change_requests[id].status = PENDING
             => /\ id \in DOMAIN change_requests'
                /\ change_requests'[id].status # PENDING
                   => /\ result'.uc \in ReviewUseCases
                      /\ result'.outcome = OK
                      /\ ~ IsBlank(change_requests'[id].reviewer_comments)
                /\ result'.outcome # OK => change_requests'[id] = change_requests[id]
         ]_vars

\* the approver's rejection with whitespace for comments was refused
C7_Witness ==
    /\ result = Outcome("RejectChangeRequest", ERR_COMMENTS_REJECT)
    /\ \E id \in DOMAIN change_requests : change_requests[id].status = PENDING

\* C8: an add_dependency rejected as closing a cycle leaves the stored edges
\* exactly as they were, and the same call made again is rejected again.
C8_CycleRejectionChangesNothing ==
    [][result' = Outcome("AddStageDependency", ERR_CIRCULAR)
       => \A p \in Projects, a \in StageIds, b \in StageIds, u \in DepActors :
            AddStageDependencyUseCase(p, a, b, u)
            => /\ dependencies' = dependencies
               /\ add_dependency(p, a, b, DependenciesOfProject(p)',
                                 _get_project_stakeholders(p)', u).error = ERR_CIRCULAR
      ]_vars

\* closing the chain A -> B -> C with C -> A was just rejected
C8_Witness ==
    /\ result = Outcome("AddStageDependency", ERR_CIRCULAR)
    /\ EdgesOf("P1") = {<<"A", "B">>, <<"B", "C">>}
    /\ EdgesOf("P2") = {}

\* C9: for an authorized actor, distinct stages and a pair not yet stored,
\* add_dependency is rejected as a cycle exactly when the existing edges lead
\* from the successor to the predecessor, and is accepted otherwise.
C9_CycleIffPathBack ==
    [][result'.uc = "AddStageDependency"
       => \A p \in Projects, a \in StageIds, b \in StageIds, u \in DepActors :
            ( /\ HoldsRole(p, u, LEAD_PROJECT_MANAGER)
              /\ a # b
              /\ <<a, b>> \notin EdgesOf(p)
              /\ AddStageDependencyUseCase(p, a, b, u) )
            => /\ result'.outcome = ERR_CIRCULAR <=> PathExists(EdgesOf(p), b, a)
               /\ result'.outcome = OK <=> ~ PathExists(EdgesOf(p), b, a)
               /\ result'.outcome = OK => EdgesOf(p)' = EdgesOf(p) \cup {<<a, b>>}
      ]_vars

\* the redundant edge A -> C was accepted next to A -> B -> C
C9_Witness ==
    /\ result = Outcome("AddStageDependency", OK)
    /\ EdgesOf("P1") = {<<"A", "B">>, <<"B", "C">>, <<"A", "C">>}

\* C10: add_dependency fails for a self-loop and for an ordered pair already
\* stored, so no stored edge is a self-loop and no ordered pair is stored twice.
C10_NoSelfLoopNoDuplicate ==
    /\ [](\A d \in Elements(dependencies) :
              /\ d.predecessor_stage_id # d.successor_stage_id
              /\ dependencies[d] = 1)
    /\ [][result'.uc = "AddStageDependency"
          => \A p \in Projects, a \in StageIds, b \in StageIds, u \in DepActors :
               ( /\ a = b \/ <<a, b>> \in EdgesOf(p)
                 /\ AddStageDependencyUseCase(p, a, b, u) )
               => /\ result'.outcome # OK
                  /\ dependencies' = dependencies
                  /\ HoldsRole(p, u, LEAD_PROJECT_MANAGER)
                     => result'.outcome =
                          IF a = b THEN ERR_SELF_DEPENDENCY ELSE ERR_DEPENDENCY_EXISTS
         ]_vars

\* an edge stored already was offered again and refused
C10_Witness ==
    /\ result = Outcome("AddStageDependency", ERR_DEPENDENCY_EXISTS)
    /\ BagCardinality(dependencies) >= 2

\* a failed call hands back no baseline, no snapshot, no stage and no previous
\* baseline to save, and the project as it was
HandsBackNothing(r, project) ==
    /\ r.baseline = None
    /\ r.snapshots = {}
    /\ r.updated_stages = {}
    /\ r.updated_previous = {}
    /\ r.project = project

\* C11: set_initial_baseline fails for an approved change request whose type
\* is not initial_baseline, and fails for a project that has an active
\* baseline; a failed call hands back nothing, and a SetInitialBaseline that
\* fails leaves the baselines, the snapshots, the projects (active_baseline_id)
\* and the stages (baseline_* fields) as they were.
C11_SetInitialFailures ==
    /\ [](\A p \in Projects, id \in DOMAIN change_requests, u \in Stakeholders :
             change_requests[id].status = APPROVED
             => LET r == set_initial_baseline(projects[p], StagesOfProject(p),
                                              change_requests[id], u)
                IN /\ change_requests[id].change_type # INITIAL_BASELINE
                      => r.error = ERR_NOT_INITIAL_TYPE
                   /\ ActiveBaselines(p) # {} => r.error # OK
                   /\ ( /\ change_requests[id].change_type = INITIAL_BASELINE
                        /\ ActiveBaselines(p) # {} )
                      => r.error = ERR_BASELINE_EXISTS
                   /\ r.error # OK => HandsBackNothing(r, projects[p]))
    /\ [][ ( /\ result'.uc = "SetInitialBaseline"
             /\ result'.outcome # OK )
           => UNCHANGED <<baselines, baseline_snapshots, projects, stages>>
         ]_vars

\* a second initial baseline was refused for project P1, and an approved
\* request of another type is stored
C11_Witness ==
    /\ result = Outcome("SetInitialBaseline", ERR_BASELINE_EXISTS)
    /\ ActiveBaselines("P1") # {}
    /\ \E i \in DOMAIN change_requests :
          /\ change_requests[i].status = APPROVED
          /\ change_requests[i].change_type # INITIAL_BASELINE

\* C12: for a project that never had a baseline, reset_baseline fails for
\* every approved change request whatever its type and hands back nothing; no
\* ResetBaseline gives such a project a baseline or writes the baseline_*
\* fields of its stages, and the one refused for it leaves every baseline
\* (is_active included), snapshot, project and stage as it was.
C12_ResetNeedsInitial ==
    /\ [](\A p \in Projects, id \in DOMAIN change_requests, t \in ChangeType,
             u \in Stakeholders :
             ( /\ BaselinesOfProject(p) = {}
               /\ change_requests[id].status = APPROVED )
             => LET r == reset_baseline(projects[p], StagesOfProject(p),
                                        BaselinesOfProject(p),
                                        [change_requests[id] EXCEPT !.change_type = t],
                                        u, _get_project_stakeholders(p))
                IN /\ r.error = ERR_NO_ACTIVE_BASELINE
                   /\ HandsBackNothing(r, projects[p]))
    /\ [][result'.uc = "ResetBaseline"
          => /\ \A p \in Projects :
                   BaselinesOfProject(p) = {}
                   => /\ BaselinesOfProject(p)' = {}
                      /\ StagesOfProject(p)' = StagesOfProject(p)
                      /\ projects'[p] = projects[p]
             /\ result'.outcome = ERR_NO_ACTIVE_BASELINE
                => UNCHANGED <<baselines, baseline_snapshots, projects, stages>>
         ]_vars

\* a reset was refused for a project that has no baseline, while approved
\* requests of two types are stored
C12_Witness ==
    /\ result = Outcome("ResetBaseline", ERR_NO_ACTIVE_BASELINE)
    /\ \E p \in Projects : BaselinesOfProject(p) = {}
    /\ \E i, j \in DOMAIN change_requests :
          /\ change_requests[i].status = APPROVED
          /\ change_requests[j].status = APPROVED
          /\ change_requests[i].change_type # change_requests[j].change_type

\* C13: reset_baseline with an approved scope_change request fails unless the
\* approver of the request holds the owner representative role on the project
\* being reset at that moment, also when the request was approved while the
\* approver held the role and the role was removed afterwards; so every
\* ResetBaseline that creates a baseline from a scope_change request happens
\* in a state where the approver holds the role on the baseline's project.
C13_ScopeResetNeedsOwnerNow ==
    /\ [](\A p \in Projects, id \in DOMAIN change_requests, u \in Stakeholders :
             ( /\ change_requests[id].status = APPROVED
               /\ change_requests[id].change_type = SCOPE_CHANGE
               /\ ~ HoldsRole(p, change_requests[id].approver_id,
                              OWNER_REPRESENTATIVE) )
             => LET r == reset_baseline(projects[p], StagesOfProject(p),
                                        BaselinesOfProject(p), change_requests[id],
                                        u, _get_project_stakeholders(p))
                IN /\ r.error # OK
                   /\ ActiveBaselines(p) # {} => r.error = ERR_ROLE
                   /\ HandsBackNothing(r, projects[p]))
    /\ [][Len(baselines') > Len(baselines)
          => \E p \in Projects, id \in DOMAIN change_requests :
                /\ baselines'[Len(baselines')].project_id = p
                /\ baselines'[Len(baselines')].change_request_id = id
                /\ change_requests[id].change_type = SCOPE_CHANGE
                   => /\ HoldsRole(p, change_requests[id].approver_id,
                                   OWNER_REPRESENTATIVE)
                      /\ HoldsRole(p, change_requests[id].approver_id,
                                   OWNER_REPRESENTATIVE)'
         ]_vars

\* a scope change was approved while u1 represented the owner of P1, u1 lost
\* the role, and the reset of P1's baseline with that request was refused
C13_Witness ==
    /\ result = Outcome("ResetBaseline", ERR_ROLE)
    /\ ActiveBaselines("P1") # {}
    /\ ~ HoldsRole("P1", "u1", OWNER_REPRESENTATIVE)
    /\ \E i \in DOMAIN change_requests :
          /\ change_requests[i].status = APPROVED
          /\ change_requests[i].change_type = SCOPE_CHANGE
          /\ change_requests[i].approver_id = "u1"

(***************************************************************************)
(* Claims: snapshots and baseline fields                                   *)
(***************************************************************************)
\* the snapshots stored for a baseline
SnapshotsOf(baseline_id) == {s \in baseline_snapshots : s.baseline_id = baseline_id}

\* C14: the step that creates a baseline stores, for each stage the project
\* has at that moment, exactly one snapshot of that baseline, holding the
\* stage's planned start and end of that moment, stores no other snapshot of
\* that baseline, and writes the same dates into the stage's
\* baseline_start_date and baseline_end_date.
C14_SnapshotPerStage ==
    [][Len(baselines') > Len(baselines)
       => LET new_snapshots ==
                  {s \in baseline_snapshots' : s.baseline_id = Len(baselines')}
          IN \E p \in Projects :
                /\ baselines'[Len(baselines')].project_id = p
                /\ Cardinality(new_snapshots) = Cardinality(StagesOfProject(p))
                /\ \A i \in DOMAIN stages :
                      stages[i].project_id = p
                      => /\ \E s \in new_snapshots :
                               /\ s.stage_id = i
                               /\ s.baseline_start_date = stages[i].planned_start_date
                               /\ s.baseline_end_date = stages[i].planned_end_date
                               /\ \A t \in new_snapshots : t.stage_id = i => t = s
                         /\ i \in DOMAIN stages'
                         /\ stages'[i].baseline_start_date =
                               stages[i].planned_start_date
                         /\ stages'[i].baseline_end_date = stages[i].planned_end_date
      ]_vars

\* the baseline was reset after stage A was rescheduled and stage D added: the
\* first baseline has two snapshots, the second three, and the two snapshots of
\* A differ
C14_Witness ==
    /\ result = Outcome("ResetBaseline", OK)
    /\ Len(baselines) = 2
    /\ Cardinality(SnapshotsOf(1)) = 2
    /\ Cardinality(SnapshotsOf(2)) = 3
    /\ \E s \in SnapshotsOf(1), t \in SnapshotsOf(2) :
          /\ s.stage_id = "A"
          /\ t.stage_id = "A"
          /\ s.baseline_end_date # t.baseline_end_date

\* C15: a stored snapshot is never changed and never deleted: whatever the
\* step (schedule update, progress update, baseline reset, phase removal,
\* report), every snapshot stored before it is stored after it, field for field.
C15_SnapshotsImmutable ==
    [][\A s \in baseline_snapshots : s \in baseline_snapshots']_vars

\* the phase was removed after a baseline was set: the snapshots of the deleted
\* stages are still stored
C15_Witness ==
    /\ result = Outcome("RemovePhase", OK)
    /\ \E s \in baseline_snapshots : s.stage_id \notin DOMAIN stages
    /\ Cardinality(SnapshotsOf(1)) >= 2

\* C16: a step that creates no baseline (every use case other than a
\* successful SetInitialBaseline or ResetBaseline) leaves the
\* baseline_start_date, baseline_end_date and baseline_duration_days of every
\* stage that is still stored and the is_active of every baseline as they
\* were, and a stage it adds has no baseline dates.
C16_OnlyBaselineOpsWriteBaselineFields ==
    [][Len(baselines') = Len(baselines)
       => /\ \A i \in DOMAIN stages' :
                IF i \in DOMAIN stages
                THEN /\ stages'[i].baseline_start_date = stages[i].baseline_start_date
                     /\ stages'[i].baseline_end_date = stages[i].baseline_end_date
                     /\ stages'[i].baseline_duration_days =
                           stages[i].baseline_duration_days
                ELSE /\ stages'[i].baseline_start_date = None
                     /\ stages'[i].baseline_end_date = None
                     /\ stages'[i].baseline_duration_days = None
          /\ \A b \in DOMAIN baselines :
                baselines'[b].is_active = baselines[b].is_active
      ]_vars

\* stage A was rescheduled after the baseline was reset: its baseline dates are
\* those of the baseline, its planned dates the new ones, and the first
\* baseline is still inactive
C16_Witness ==
    /\ result = Outcome("UpdateStageSchedule", OK)
    /\ "A" \in DOMAIN stages
    /\ stages["A"].baseline_end_date = 5
    /\ stages["A"].planned_end_date = 9
    /\ Len(baselines) = 2
    /\ ~ baselines[1].is_active

(***************************************************************************)
(* Claims: failures and derived summaries                                  *)
(***************************************************************************)
\* C17: a core service operation that fails has changed nothing: the entity
\* it hands back with the error (the object the caller passed in) has the
\* field values it had before the call.  Stated for update_project,
\* remove_phase, update_stage_schedule, apply_progress_update,
\* approve_change_request, reject_change_request, set_initial_baseline and
\* reset_baseline on every stored entity and every input.
C17_FailedCallsChangeNothing ==
    /\ \A p \in DOMAIN projects, d \in ScheduleInputs :
          LET r == update_project(projects[p], d[1], d[2])
          IN r.error # OK => r.project = projects[p]
    /\ \A i \in DOMAIN phases, u \in Stakeholders :
          LET r == remove_phase(phases[i], list_for_phase(stages, i),
                                _get_project_stakeholders(phases[i].project_id), u)
          IN r.error # OK => r.phase = phases[i] /\ r.stages = {}
    /\ \A i \in DOMAIN stages, d \in ScheduleInputs, u \in Stakeholders :
          LET r == update_stage_schedule(stages[i], d[1], d[2],
                                         _get_project_stakeholders(stages[i].project_id),
                                         u)
          IN r.error # OK => r.stage = stages[i]
    /\ \A i \in DOMAIN stages, c \in ProgressInputs, u \in Stakeholders :
          LET r == apply_progress_update(stages[i], c.new_status, c.new_progress_pct,
                                         c.actual_start_date, c.actual_end_date,
                                         c.comments, u)
          IN r.error # OK => r.stage = stages[i]
    /\ \A id \in DOMAIN change_requests, u \in Stakeholders, c \in CommentInputs :
          LET ps_list == _get_project_stakeholders(change_requests[id].project_id)
              approved == approve_change_request(change_requests[id], u, c, ps_list)
              rejected == reject_change_request(change_requests[id], u, c, ps_list)
          IN /\ approved.error # OK => approved.cr = change_requests[id]
             /\ rejected.error # OK => rejected.cr = change_requests[id]
    /\ \A p \in DOMAIN projects, id \in DOMAIN change_requests, u \in Stakeholders :
          LET set == set_initial_baseline(projects[p], StagesOfProject(p),
                                          change_requests[id], u)
              reset == reset_baseline(projects[p], StagesOfProject(p),
                                      BaselinesOfProject(p), change_requests[id], u,
                                      _get_project_stakeholders(p))
          IN /\ set.error # OK => HandsBackNothing(set, projects[p])
             /\ reset.error # OK => HandsBackNothing(reset, projects[p])

\* C18: a use case that ends in an error, a not-found raised late included,
\* leaves the stored stages, status updates, notifications, phases and
\* projects exactly as they were.
C18_FailedUseCaseWritesNothing ==
    [][result'.outcome # OK
       => UNCHANGED <<stages, stage_updates, notifications, phases, projects>>
      ]_vars

\* the summary fields of a project that recalculate_progress derives from the
\* planned and actual state of its stages
ProjectSummary(project) ==
    <<project.overall_progress_pct, project.total_planned_duration_days,
      project.total_actual_duration_days>>

\* the summary fields of a phase
PhaseSummary(phase) ==
    <<phase.overall_progress_pct, phase.planned_start_date, phase.planned_end_date,
      phase.actual_start_date, phase.actual_end_date>>

StageMutatingUseCases == {"AddStage", "UpdateStageSchedule", "UpdateStageProgress"}

\* C19: right after a successful AddStage, UpdateStageSchedule or
\* UpdateStageProgress, the progress and the planned and actual duration totals
\* of every stored project, and the progress and planned and actual dates of
\* every stored phase, are what recalculate_progress and
\* recalculate_phase_progress compute from the stored stages.
C19_SummariesFollowStages ==
    ( /\ result.uc \in StageMutatingUseCases
      /\ result.outcome = OK )
    => /\ \A p \in DOMAIN projects :
             ProjectSummary(projects[p]) =
                ProjectSummary(recalculate_progress(projects[p],
                                                    list_for_project(stages, p)))
       /\ \A i \in DOMAIN phases :
             PhaseSummary(phases[i]) =
                PhaseSummary(recalculate_phase_progress(phases[i],
                                                        list_for_phase(stages, i)))

\* C20: right after a successful SetInitialBaseline or ResetBaseline, the
\* total_baseline_duration_days of every stored project is the sum of the
\* baseline_duration_days of its stored stages, None counted as 0.
C20_BaselineTotalFollowsStages ==
    ( /\ result.uc \in BaselineUseCases
      /\ result.outcome = OK )
    => \A p \in DOMAIN projects :
          projects[p].total_baseline_duration_days =
             LET seq == SetToSeq(StagesOfProject(p))
             IN SumSeq([i \in DOMAIN seq |-> OrZero(seq[i].baseline_duration_days)])

(***************************************************************************)
(* Claims: progress updates                                                *)
(***************************************************************************)
\* C21: whatever progress updates were accepted and refused since the stages
\* were added, every stored stage with an actual end date has an actual start
\* date, every completed stage has both, and every progress percentage lies
\* between 0 and 100.
C21_StageActualsConsistent ==
    \A i \in DOMAIN stages :
        /\ stages[i].actual_end_date # None => stages[i].actual_start_date # None
        /\ stages[i].status = COMPLETED
           => /\ stages[i].actual_start_date # None
              /\ stages[i].actual_end_date # None
        /\ 0 <= stages[i].progress_pct
        /\ stages[i].progress_pct <= 100

\* a completion without an end date was refused after another stage was
\* completed with both dates
C21_Witness ==
    /\ result = Outcome("UpdateStageProgress", ERR_COMPLETED_WITHOUT_DATES)
    /\ \E i \in DOMAIN stages : /\ stages[i].status = COMPLETED
                                /\ stages[i].actual_end_date = 4
    /\ \E i \in DOMAIN stages : stages[i].status = NOT_STARTED

\* the refusals of apply_progress_update
ProgressRefusals ==
    {ERR_PROGRESS_RANGE, ERR_END_WITHOUT_START, ERR_COMPLETED_WITHOUT_DATES}

\* C22: apply_progress_update fails for a percentage outside 0..100, for an end
\* date without a start date, and for the status completed when a date of the
\* same update is missing; a failed call hands back no history record and the
\* stage as it was, and an UpdateStageProgress refused this way leaves the
\* stored stages and the history as they were.
C22_ProgressRefusals ==
    /\ [](\A i \in DOMAIN stages, c \in ProgressCommands, u \in Stakeholders :
             LET r == apply_progress_update(stages[i], c.new_status,
                                            c.new_progress_pct, c.actual_start_date,
                                            c.actual_end_date, c.comments, u)
             IN /\ (c.new_progress_pct < 0 \/ c.new_progress_pct > 100)
                   => r.error # OK
                /\ (c.actual_end_date # None /\ c.actual_start_date = None)
                   => r.error # OK
                /\ ( /\ c.new_status = COMPLETED
                     /\ (c.actual_start_date = None \/ c.actual_end_date = None) )
                   => r.error # OK
                /\ r.error # OK
                   => /\ r.error \in ProgressRefusals
                      /\ r.update = NoUpdate
                      /\ r.stage = stages[i])
    /\ [][ ( /\ result'.uc = "UpdateStageProgress"
             /\ result'.outcome \in ProgressRefusals )
           => UNCHANGED <<stages, stage_updates>>
         ]_vars

\* an end date without a start date was refused for a stage that has a history
C22_Witness ==
    /\ result = Outcome("UpdateStageProgress", ERR_END_WITHOUT_START)
    /\ Len(stage_updates) >= 1
    /\ \E i \in DOMAIN stages : stages[i].comments # <<>>

(***************************************************************************)
(* Claims: deviation                                                       *)
(***************************************************************************)
\* the two derived fields the claims expect for a stage
ExpectedDeviation(stage) ==
    IF stage.planned_end_date = None \/ stage.baseline_end_date = None
    THEN <<None, NoneStr>>
    ELSE LET d == stage.planned_end_date - stage.baseline_end_date
         IN <<d, CASE d > 0 -> DELAYED
                   [] d < 0 -> AHEAD
                   [] OTHER -> ON_BASELINE>>

\* C23: compute_deviation clears deviation_days and deviation_status when the
\* planned or the baseline end date is absent; otherwise deviation_days is the
\* planned end minus the baseline end, with status delayed above zero, ahead
\* below zero and on_baseline at zero; a schedule update and a report leave
\* these values on the stored stages they recompute.
C23_DeviationValues ==
    /\ [](\A i \in DOMAIN stages :
             LET r == compute_deviation(stages[i])
             IN <<r.deviation_days, r.deviation_status>> = ExpectedDeviation(stages[i]))
    /\ [][ (result'.uc = "UpdateStageSchedule" /\ result'.outcome = OK)
           => <<stages'["A"].deviation_days, stages'["A"].deviation_status>>
              = ExpectedDeviation(stages'["A"]) ]_vars
    /\ [][ (result'.uc = "GetBaselineReport" /\ result'.outcome = OK)
           => \A i \in DOMAIN stages' :
                  stages'[i].project_id = "P1"
                  => <<stages'[i].deviation_days, stages'[i].deviation_status>>
                     = ExpectedDeviation(stages'[i]) ]_vars

\* stage A, baselined at day 5 and now planned to end on day 14, is 9 days
\* delayed, beside a stage of another project that has no baseline
C23_Witness ==
    /\ stages["A"].baseline_end_date = 5
    /\ stages["A"].planned_end_date = 14
    /\ stages["A"].deviation_days = 9
    /\ stages["A"].deviation_status = DELAYED
    /\ stages["B"].deviation_status = ON_BASELINE
    /\ stages["C"].deviation_status = NoneStr

\* C24: compute_deviation applied twice gives the deviation it gives applied
\* once, and it leaves every other field of the stage as it was; a report
\* that follows a report changes no stored stage.
C24_DeviationIdempotent ==
    /\ [](\A i \in DOMAIN stages :
             LET once == compute_deviation(stages[i])
             IN /\ compute_deviation(once) = once
                /\ [once EXCEPT !.deviation_days = stages[i].deviation_days,
                                !.deviation_status = stages[i].deviation_status]
                   = stages[i])
    /\ [][ ( /\ result = Outcome("GetBaselineReport", OK)
             /\ result'.uc = "GetBaselineReport" )
           => UNCHANGED stages ]_vars

\* a report was produced while stage A is planned to end 3 days before its
\* baseline end
C24_Witness ==
    /\ result = Outcome("GetBaselineReport", OK)
    /\ stages["A"].baseline_end_date = 5
    /\ stages["A"].planned_end_date = 2
    /\ stages["A"].deviation_days = -3
    /\ stages["A"].deviation_status = AHEAD

\* C25: the baseline report changes no stored entity: projects, stages (their
\* deviation fields included), baselines, snapshots and audit entries are the
\* same after the report use case as before it.
C25_ReportChangesNothing ==
    [][ result'.uc = "GetBaselineReport"
        => UNCHANGED <<projects, stages, baselines, baseline_snapshots, audit_trail>>
      ]_vars

(***************************************************************************)
(* Claims: audit trail                                                     *)
(***************************************************************************)
\* C26: run one after the other, each successful SetInitialBaseline or
\* ResetBaseline adds exactly one audit entry, which names the new baseline
\* and its change request; a project with k baselines has k audit entries
\* numbered 1..k; entries already written are neither changed nor removed.
C26_AuditTrailFollowsBaselines ==
    /\ [](\A p \in Projects :
             LET entries == {e \in audit_trail : e.project_id = p}
                 k == Cardinality({n \in DOMAIN baselines : baselines[n].project_id = p})
             IN /\ Cardinality(entries) = k
                /\ {e.sequence_number : e \in entries} = 1..k
                /\ \A e \in entries :
                       /\ e.baseline_id \in DOMAIN baselines
                       /\ baselines[e.baseline_id].project_id = p
                       /\ baselines[e.baseline_id].change_request_id
                          = e.change_request_id)
    /\ [][ /\ audit_trail \subseteq audit_trail'
           /\ IF result'.uc \in BaselineUseCases /\ result'.outcome = OK
              THEN \E e \in audit_trail' \ audit_trail :
                       /\ audit_trail' = audit_trail \cup {e}
                       /\ Len(baselines') = Len(baselines) + 1
                       /\ e.baseline_id = Len(baselines')
                       /\ e.change_request_id
                          = baselines'[Len(baselines')].change_request_id
                       /\ e.project_id = baselines'[Len(baselines')].project_id
              ELSE audit_trail' = audit_trail
         ]_vars

\* project P1 was re-baselined twice after its initial baseline: three audit
\* entries, the last numbered 3
C26_Witness ==
    /\ result = Outcome("ResetBaseline", OK)
    /\ Len(baselines) = 3
    /\ \E e \in audit_trail : /\ e.sequence_number = 3
                              /\ e.baseline_id = 3
                              /\ e.project_id = "P1"
    /\ \E e \in audit_trail : /\ e.sequence_number = 1
                              /\ e.baseline_id = 1

(***************************************************************************)
(* Claims: concurrent resets                                               *)
(***************************************************************************)
\* C27: nothing guards against concurrent resets: a ResetBaseline that saves
\* after another one saved is still accepted, and it numbers its baseline one
\* above the highest version among the baselines it had read, whatever was
\* stored since; two resets of one project that both read before either saves
\* leave two baselines of the project with the same version_number.
C27_ResetNumbersFromWhatItRead ==
    [][ \A w \in Workers :
           (in_flight[w] # NoRead /\ in_flight'[w] = NoRead)
           => LET read == in_flight[w]
                  cr == change_requests[read.change_request_id]
              IN /\ ( /\ cr.status = APPROVED
                      /\ projects[read.project_id].active_baseline_id # None
                      /\ cr.change_type # SCOPE_CHANGE )
                    => result' = Outcome("ResetBaseline", OK)
                 /\ result' = Outcome("ResetBaseline", OK)
                    => /\ Len(baselines') = Len(baselines) + 1
                       /\ baselines'[Len(baselines')].version_number
                          = Max0({baselines[n].version_number :
                                     n \in read.baseline_ids}) + 1
      ]_vars

\* both workers have saved: baselines 2 and 3 of project P1 both carry
\* version 2
C27_Witness ==
    /\ \A w \in Workers : in_flight[w] = NoRead
    /\ \E n, m \in DOMAIN baselines :
           /\ n # m
           /\ baselines[n].project_id = "P1"
           /\ baselines[m].project_id = "P1"
           /\ baselines[n].version_number = baselines[m].version_number

(***************************************************************************)
(* Claims: progress history                                                *)
(***************************************************************************)
\* the ordered history of one stage
HistoryOf(stage_id) ==
    SelectSeq(stage_updates, LAMBDA u : u.stage_id = stage_id)

RECURSIVE ProgressTotal(_)
ProgressTotal(stages_) ==
    IF stages_ = {}
    THEN 0
    ELSE LET stage == CHOOSE x \in stages_ : TRUE
         IN stage.progress_pct + ProgressTotal(stages_ \ {stage})

\* overall is the mean of the progress percentages of stages_
IsMeanProgress(overall, stages_) ==
    IF stages_ = {}
    THEN overall = Zero
    ELSE /\ overall.den > 0
         /\ overall.num * Cardinality(stages_) = overall.den * ProgressTotal(stages_)

\* C30: recalculate_progress sets overall_progress_pct to the sum of the
\* progress percentages of all given stages divided by their number, and to 0
\* for no stages; an accepted progress update leaves that mean of the
\* project's stored stages on the stored project.
C30_OverallProgressIsMean ==
    /\ [](\A p \in Projects :
             /\ IsMeanProgress(recalculate_progress(projects[p], StagesOfProject(p))
                                  .overall_progress_pct,
                               StagesOfProject(p))
             /\ recalculate_progress(projects[p], {}).overall_progress_pct = Zero)
    /\ [][ (result'.uc = "UpdateStageProgress" /\ result'.outcome = OK)
           => IsMeanProgress(projects'["P1"].overall_progress_pct,
                             {stages'[i] : i \in {j \in DOMAIN stages' :
                                                     stages'[j].project_id = "P1"}})
         ]_vars

\* project P1 has three stages with progress 0, 50 and 100 and overall
\* progress 50
C30_Witness ==
    /\ result = Outcome("UpdateStageProgress", OK)
    /\ {s.progress_pct : s \in StagesOfProject("P1")} = {0, 50, 100}
    /\ Cardinality(StagesOfProject("P1")) = 3
    /\ projects["P1"].overall_progress_pct = [num |-> 50, den |-> 1]

(***************************************************************************)
(* Claims: blocked stages                                                  *)
(***************************************************************************)
\* C29: every accepted progress update with new status blocked adds one
\* STAGE_BLOCKED notification per role assignment of the stage's project, and
\* an accepted update with another new status adds no notification.
C29_BlockedNotifiesStageProject ==
    [][ Len(stage_updates') = Len(stage_updates) + 1
        => LET u == stage_updates'[Len(stage_updates')]
           IN notifications' =
                 IF u.new_status = BLOCKED
                 THEN notifications (+) SetToBag(
                          notify_all_stakeholders(
                              stages[u.stage_id].project_id,
                              _get_project_stakeholders(stages[u.stage_id].project_id),
                              STAGE_BLOCKED, None, None, u.stage_id))
                 ELSE notifications
      ]_vars

(***************************************************************************)
(* Claims: empty phases                                                    *)
(***************************************************************************)
\* C31: recalculate_phase_progress, given no stage of the phase, sets the
\* phase's progress to 0 and its planned and actual start and end dates to
\* null, whatever the phase held before.
C31_EmptyPhaseIsCleared ==
    \A i \in DOMAIN phases :
        LET others == {stages[j] : j \in {k \in DOMAIN stages : stages[k].phase_id # i}}
            r == recalculate_phase_progress(phases[i], others)
        IN /\ r.overall_progress_pct = Zero
           /\ r.planned_start_date = None
           /\ r.planned_end_date = None
           /\ r.actual_start_date = None
           /\ r.actual_end_date = None

(***************************************************************************)
(* Claims: submission                                                      *)
(***************************************************************************)
\* C32: submit_change_request fails for a reason that is empty or consists of
\* whitespace only; otherwise it returns a pending change request with the
\* given project, requester, approver, change type and declared impact,
\* whatever its sign; every change request enters the store pending, and a
\* refused submission stores nothing.
C32_SubmitCreatesPending ==
    /\ [](\A c \in SubmitCommands :
             LET r == submit_change_request("P1", c.requested_by_id, c.approver_id,
                                            c.change_type, c.reason,
                                            c.schedule_impact_days)
             IN IF \A k \in DOMAIN c.reason : c.reason[k] \in Whitespace
                THEN r.error # OK
                ELSE /\ r.error = OK
                     /\ r.cr.status = PENDING
                     /\ r.cr.project_id = "P1"
                     /\ r.cr.requested_by_id = c.requested_by_id
                     /\ r.cr.approver_id = c.approver_id
                     /\ r.cr.change_type = c.change_type
                     /\ r.cr.reason = c.reason
                     /\ r.cr.schedule_impact_days = c.schedule_impact_days)
    /\ [][ /\ Len(change_requests') >= Len(change_requests)
           /\ \A id \in DOMAIN change_requests' \ DOMAIN change_requests :
                  /\ change_requests'[id].status = PENDING
                  /\ result' = Outcome("SubmitChangeRequest", OK)
           /\ result' = Outcome("SubmitChangeRequest", OK)
              => Len(change_requests') = Len(change_requests) + 1
           /\ (result'.uc = "SubmitChangeRequest" /\ result'.outcome # OK)
              => UNCHANGED <<change_requests, notifications>>
         ]_vars

\* a whitespace-only reason was refused after a request with a negative
\* impact was stored and approved
C32_Witness ==
    /\ result = Outcome("SubmitChangeRequest", ERR_REASON)
    /\ Len(change_requests) = 1
    /\ change_requests[1].schedule_impact_days = -2
    /\ change_requests[1].status = APPROVED

(***************************************************************************)
(* Claims: removing a phase                                                *)
(***************************************************************************)
\* the stage carries an actual start or an actual end date
HasActuals(stage) ==
    stage.actual_start_date # None \/ stage.actual_end_date # None

\* C33: a phase with a child stage that has an actual start or end date is
\* not removed: remove_phase fails, and a RemovePhase on such a phase deletes
\* neither the phase nor a stage; since no stored stage has an actual end date
\* without an actual start date, looking at the start date finds every such
\* stage.
C33_ActualsBlockRemoval ==
    /\ [](\A i \in DOMAIN phases, u \in Stakeholders :
             LET children == list_for_phase(stages, i)
             IN /\ (\E stage \in children : HasActuals(stage))
                   => remove_phase(phases[i], children,
                                   _get_project_stakeholders(phases[i].project_id),
                                   u).error # OK
                /\ \A stage \in children :
                       HasActuals(stage) <=> stage.actual_start_date # None)
    /\ [][ ( /\ result'.uc = "RemovePhase"
             /\ "phase1" \in DOMAIN phases
             /\ \E stage \in list_for_phase(stages, "phase1") : HasActuals(stage) )
           => /\ result' = Outcome("RemovePhase", ERR_PHASE_HAS_ACTUALS)
              /\ UNCHANGED <<phases, stages>>
         ]_vars

\* the removal of phase1 was refused: its stage A was started and the added
\* stage D was never touched
C33_Witness ==
    /\ result = Outcome("RemovePhase", ERR_PHASE_HAS_ACTUALS)
    /\ "phase1" \in DOMAIN phases
    /\ stages["A"].actual_start_date = 1
    /\ stages["A"].actual_end_date = None
    /\ "D" \in DOMAIN stages
    /\ ~ HasActuals(stages["D"])

(***************************************************************************)
(* Claims: dependency endpoints                                            *)
(***************************************************************************)
\* C34: every stored dependency of a project connects two stored stages that
\* both belong to that project.
C34_DependenciesWithinProject ==
    \A dep \in BagToSet(dependencies) :
        /\ dep.predecessor_stage_id \in DOMAIN stages
        /\ dep.successor_stage_id \in DOMAIN stages
        /\ stages[dep.predecessor_stage_id].project_id = dep.project_id
        /\ stages[dep.successor_stage_id].project_id = dep.project_id

(***************************************************************************)
(* Claims: baseline report                                                 *)
(***************************************************************************)
\* C35: for every stored stage with a snapshot in the active baseline of its
\* project, the row of the baseline report (computed from the snapshot's
\* baseline end date) shows the deviation days and status compute_deviation
\* gives for the stage (computed from the stage's own baseline end date), and
\* the report's deviation summary counts, per status, the rows that carry it.
C35_ReportAgreesWithStages ==
    \A p \in Projects :
        LET report == BaselineReportDTO(p)
        IN /\ \A row \in report.stage_snapshots :
                  row.stage_id \in DOMAIN stages
                  => LET stage == compute_deviation(stages[row.stage_id])
                     IN /\ row.deviation_days = stage.deviation_days
                        /\ row.deviation_status = stage.deviation_status
           /\ \A status \in {ON_BASELINE, AHEAD, DELAYED} :
                  report.deviation_summary[status]
                  = Cardinality({row \in report.stage_snapshots :
                                    row.deviation_status = status})

\* after a reset, the report of P1 has a row for stage A against the new
\* baseline end 9 and a row for stage B, both on baseline, while the first
\* baseline still holds A's end date 5
C35_Witness ==
    /\ BaselineReportDTO("P1").active_baseline_version = 2
    /\ \E row \in BaselineReportDTO("P1").stage_snapshots :
           /\ row.stage_id = "A"
           /\ row.baseline_end_date = 9
           /\ row.deviation_status = ON_BASELINE
    /\ BaselineReportDTO("P1").deviation_summary[ON_BASELINE] >= 2
    /\ \E snap \in baseline_snapshots : /\ snap.baseline_id = 1
                                        /\ snap.stage_id = "A"
                                        /\ snap.baseline_end_date = 5
    /\ result = Outcome("GetBaselineReport", OK)

(***************************************************************************)
(* Claims: authorization of baselines                                      *)
(***************************************************************************)
\* C36: every baseline of a project was created from a change request that
\* was submitted for that project.
C36_BaselineFromOwnProjectsRequest ==
    \A n \in DOMAIN baselines :
        change_requests[baselines[n].change_request_id].project_id
        = baselines[n].project_id

\* C37: an approved change request authorizes at most one baseline: no two
\* baselines carry the same change_request_id.
C37_RequestUsedOnce ==
    \A n, m \in DOMAIN baselines :
        n # m => baselines[n].change_request_id # baselines[m].change_request_id

(***************************************************************************)
(* Claims: durations                                                       *)
(***************************************************************************)
\* C38: the stored durations of every stage agree with its date pairs:
\* planned_duration_days is the planned end minus the planned start when both
\* dates are present and null otherwise, and likewise actual_duration_days
\* for the actual dates.
C38_DurationsFollowDates ==
    \A i \in DOMAIN stages :
        /\ stages[i].planned_duration_days
           = IF stages[i].planned_start_date # None /\ stages[i].planned_end_date # None
             THEN stages[i].planned_end_date - stages[i].planned_start_date
             ELSE None
        /\ stages[i].actual_duration_days
           = IF stages[i].actual_start_date # None /\ stages[i].actual_end_date # None
             THEN stages[i].actual_end_date - stages[i].actual_start_date
             ELSE None

(***************************************************************************)
(* Claims: roles of the entity's own project                               *)
(***************************************************************************)
\* C39: the planned dates of a stage change only through an actor who holds
\* Lead-Project-Manager on the stage's own project, and a scope_change
\* request is approved only by an approver who holds Owner-Representative on
\* the request's own project, whichever project the command names.
C39_RolesOfOwnProject ==
    [][ /\ \A i \in DOMAIN stages :
              ( \/ stages'[i].planned_start_date # stages[i].planned_start_date
                \/ stages'[i].planned_end_date # stages[i].planned_end_date )
              => \E ps \in project_stakeholders :
                     /\ ps.project_id = stages[i].project_id
                     /\ ps.stakeholder_id = stages'[i].updated_by_id
                     /\ ps.role = LEAD_PROJECT_MANAGER
        /\ \A id \in DOMAIN change_requests :
              ( /\ change_requests[id].change_type = SCOPE_CHANGE
                /\ change_requests[id].status = PENDING
                /\ change_requests'[id].status = APPROVED )
              => \E ps \in project_stakeholders :
                     /\ ps.project_id = change_requests[id].project_id
                     /\ ps.stakeholder_id = change_requests[id].approver_id
                     /\ ps.role = OWNER_REPRESENTATIVE
      ]_vars

====
